---- MODULE Spec2Model ----
(***************************************************************************)
(* Execution core of workflow_automations: the WorkflowExecution and       *)
(* StepExecution state machines (app/models) and the LinearExecutor        *)
(* (app/executor/linear_executor.py) that drives them.  The durable store  *)
(* is modelled at commit granularity: every action is the code between two *)
(* consecutive db_session.commit() calls of one orchestration call.        *)
(***************************************************************************)
EXTENDS Integers, Sequences, FiniteSets, TLC

\* ---- bounds of the model ----
NSteps == 2          \* most steps a workflow of Spec has, order 1..n
MaxRetries == 1      \* largest max_retries a step's retry_config carries
MaxExecutions == 2   \* WorkflowExecution rows ever created
ExtraAttempts == 2   \* StepExecution rows beyond one pass over the workflow
MaxTransitions == 3  \* transition_to calls on the detached object of SpecSM
NumCalls == 2        \* orchestration call frames
MaxDuration == 2     \* longest a step call takes, in seconds

Calls == 1..NumCalls
SeqCalls == {1}

\* ---- values ----
Null == 0            \* None for ids (rows are numbered from 1)
NoTime == -1         \* None for a timestamp
NoRetryConfig == -1  \* step.retry_config is None
NoMaxRetries == -2   \* a retry_config without the key max_retries
NoSchema == "none"   \* step.input_schema / step.output_schema is None

PENDING == "pending"
RUNNING == "running"
SUCCESS == "success"
FAILED == "failed"
CANCELLED == "cancelled"
SKIPPED == "skipped"

WorkflowExecutionStatus == {PENDING, RUNNING, SUCCESS, FAILED, CANCELLED}
StepExecutionStatus == {PENDING, RUNNING, SUCCESS, FAILED, SKIPPED}

WorkflowTerminal == {SUCCESS, FAILED, CANCELLED}
StepTerminal == {SUCCESS, FAILED, SKIPPED}

\* the readings datetime.utcnow() can give when the last reading was n: the
\* commits between two readings take longer than the clock's resolution
Times(n) == {n + 1}

\* JSON values: shape is the Python type (a mapping, or one of the scalars
\* None, int, str); of a mapping, value is the type of its entry "value"
\* ("absent" when it has none) and rest the set of its other keys
JsonNull == [shape |-> "null", value |-> "absent", rest |-> {}]
JsonInt == [shape |-> "int", value |-> "absent", rest |-> {}]

JsonMap(value, rest) == [shape |-> "map", value |-> value, rest |-> rest]

\* {"test": "data"}, the trigger input verify_retry.py passes
TestData == JsonMap("absent", {"test"})

\* {"value": "not-an-int"}, the input of test_input_validation_failure
NotAnInt == JsonMap("str", {})

\* {"value": 123}
ValueMap == JsonMap("int", {})

\* isinstance(x, dict)
IsDict(x) == x.shape = "map"

\* x if isinstance(x, dict) else {"value": x}
Wrap(x) == IF IsDict(x) THEN x ELSE JsonMap(x.shape, {})

\* the schema of test_validation.py: {"type": "object", "properties":
\* {"value": {"type": "integer"}}, "required": ["value"]}
ValueInteger == "value_integer"

\* jsonschema.validate(instance, schema) raises no ValidationError
Validates(schema, instance) ==
  IF schema = ValueInteger
    THEN IsDict(instance) /\ instance.value = "int"
    ELSE TRUE

VARIABLES
  steps,             \* steps table of the workflow, order = index; a row is
                     \* the step's declaration
  executions,        \* workflow_executions table, id = index
  step_executions,   \* step_executions table, id = index
  calls,             \* frame of each orchestration call
  logs,              \* execution_logs table, in the order of insertion
  now,               \* last reading of the clock
  sm                 \* one detached model object driven through transition_to

vars == <<steps, executions, step_executions, calls, logs, now, sm>>

----------------------------------------------------------------------------
\* State machines (models/workflow_execution.py, models/step_execution.py)

WorkflowValidTransitions(from_status) ==
  IF from_status = PENDING THEN {RUNNING}
  ELSE IF from_status = RUNNING THEN {SUCCESS, FAILED, CANCELLED}
  ELSE {}

StepValidTransitions(from_status) ==
  IF from_status = PENDING THEN {RUNNING}
  ELSE IF from_status = RUNNING THEN {SUCCESS, FAILED, SKIPPED}
  ELSE {}

WorkflowValidateTransition(from_status, to_status) ==
  to_status \in WorkflowValidTransitions(from_status)

StepValidateTransition(from_status, to_status) ==
  to_status \in StepValidTransitions(from_status)

\* ApplyTransition with the two timestamps taken for each other
ApplyTransitionSwapped(rec, new_status, terminal, t) ==
  LET r1 == [rec EXCEPT !.status = new_status]
      r2 == IF new_status = RUNNING
              THEN [r1 EXCEPT !.finished_at = t, !.was_running = TRUE]
              ELSE r1
  IN IF new_status \in terminal THEN [r2 EXCEPT !.started_at = t] ELSE r2

\* the assignments transition_to performs once the transition is accepted
ApplyTransition(rec, new_status, terminal, t) ==
  LET r1 == [rec EXCEPT !.status = new_status]
      r2 == IF new_status = RUNNING
              THEN [r1 EXCEPT !.started_at = t, !.was_running = TRUE]
              ELSE r1
  IN IF new_status \in terminal THEN [r2 EXCEPT !.finished_at = t] ELSE r2

\* WorkflowExecution.transition_to: <<raised, record after the call>>
WorkflowTransitionTo(rec, new_status, t) ==
  IF rec.status \in WorkflowTerminal
    THEN [raised |-> TRUE, rec |-> rec]
  ELSE IF ~WorkflowValidateTransition(rec.status, new_status)
    THEN [raised |-> TRUE, rec |-> rec]
  ELSE [raised |-> FALSE,
        rec |-> ApplyTransition(rec, new_status, WorkflowTerminal, t)]

\* StepTransitionTo assigning the status before it validates the transition
StepTransitionToAssignFirst(rec, new_status, t) ==
  IF rec.status \in StepTerminal
    THEN [raised |-> TRUE, rec |-> rec]
  ELSE IF ~StepValidateTransition(rec.status, new_status)
    THEN [raised |-> TRUE, rec |-> [rec EXCEPT !.status = new_status]]
  ELSE [raised |-> FALSE,
        rec |-> ApplyTransition(rec, new_status, StepTerminal, t)]

\* StepExecution.transition_to
StepTransitionTo(rec, new_status, t) ==
  IF rec.status \in StepTerminal
    THEN [raised |-> TRUE, rec |-> rec]
  ELSE IF ~StepValidateTransition(rec.status, new_status)
    THEN [raised |-> TRUE, rec |-> rec]
  ELSE [raised |-> FALSE,
        rec |-> ApplyTransition(rec, new_status, StepTerminal, t)]

----------------------------------------------------------------------------
\* Rows

\* a WorkflowExecution row.  Beside the columns it carries was_running and
\* trigger_input, the input execute was called with for it (no column
\* keeps it)
NewWorkflowExecution(t) ==
  [status |-> PENDING, created_at |-> t, started_at |-> NoTime,
   finished_at |-> NoTime, was_running |-> FALSE, trigger_input |-> JsonNull]

\* a StepExecution row.  Beside the columns it carries what the history of
\* the attempt was: was_running, manual (resume_execution created it),
\* invoked (the step implementation's execute was called for it),
\* result_metadata (whose metadata the StepResult of the attempt carried)
\* and context_trigger_input (the trigger_input of the ExecutionContext
\* _execute_single_step built for it)
NewStepExecution(we, step, retry_count, is_retry, parent, input, t) ==
  [workflow_execution_id |-> we, step_id |-> step, status |-> PENDING,
   retry_count |-> retry_count, is_retry |-> is_retry,
   parent_step_execution_id |-> parent, input |-> input,
   output |-> JsonNull, error_code |-> "none", error_type |-> "none",
   has_output |-> FALSE, created_at |-> t, started_at |-> NoTime,
   finished_at |-> NoTime, was_running |-> FALSE, manual |-> FALSE,
   invoked |-> FALSE, result_metadata |-> "none",
   context_trigger_input |-> JsonNull]

\* a Step row: type stands for the executor _instantiate_step gives it
StepRow(type, retry_config, input_schema, output_schema, timeout_seconds) ==
  [type |-> type, retry_config |-> retry_config,
   input_schema |-> input_schema, output_schema |-> output_schema,
   timeout_seconds |-> timeout_seconds]

\* the Step row whose retry_config names backoff_seconds too
WithBackoff(step_row, backoff_seconds) ==
  [k \in DOMAIN step_row \cup {"backoff_seconds"} |->
     IF k = "backoff_seconds" THEN backoff_seconds ELSE step_row[k]]

\* an ExecutionLog row: step_execution_id (Null on a workflow-level log),
\* message without its arguments, the status of log_metadata and the
\* timestamp given at insertion.  we names the WorkflowExecution the call
\* that wrote the log was driving (a workflow-level row keeps only the
\* workflow_id)
NewExecutionLog(step_execution_id, message, status, we, t) ==
  [step_execution_id |-> step_execution_id, message |-> message,
   status |-> status, workflow_execution_id |-> we, timestamp |-> t]

IdleFrame ==
  [kind |-> "none", pc |-> "idle", we |-> Null, se |-> Null, step |-> Null,
   single |-> FALSE, result |-> "none", outcome |-> "none",
   trigger_input |-> JsonNull, current_input |-> JsonNull]

Steps == 1..Len(steps)
ExecutionIds == 1..Len(executions)
AttemptIds == 1..Len(step_executions)

Finished(c) == calls[c].pc \in {"idle", "done"}
NoCallActive == \A c \in Calls : Finished(c)

----------------------------------------------------------------------------
\* LinearExecutor helpers

\* the step_executions table takes another row
HasRoom == Len(step_executions) < Len(steps) + ExtraAttempts

\* step.retry_config.get("max_retries", 0)
MaxRetriesOf(retry_config) ==
  IF retry_config = NoMaxRetries THEN 0 ELSE retry_config

\* step.retry_config.get("backoff_seconds", 1), line 325: a Step row carries
\* backoff_seconds when its retry_config names it
BackoffSeconds(step_row) ==
  IF "backoff_seconds" \in DOMAIN step_row THEN step_row.backoff_seconds
  ELSE 1

\* ShouldRetry retrying whatever the error_type of the failure is
ShouldRetryAnyError(step, step_execution, result) ==
  IF steps[step].retry_config = NoRetryConfig THEN FALSE
  ELSE step_execution.retry_count < MaxRetriesOf(steps[step].retry_config)

\* ShouldRetry comparing retry_count <= max_retries
ShouldRetryOnceMore(step, step_execution, result) ==
  IF result # "transient" THEN FALSE
  ELSE IF steps[step].retry_config = NoRetryConfig THEN FALSE
  ELSE step_execution.retry_count <= MaxRetriesOf(steps[step].retry_config)

\* LinearExecutor._should_retry
ShouldRetry(step, step_execution, result) ==
  IF result # "transient" THEN FALSE
  ELSE IF steps[step].retry_config = NoRetryConfig THEN FALSE
  ELSE step_execution.retry_count < MaxRetriesOf(steps[step].retry_config)

\* FinalCandidates over the attempts of every execution (the query without
\* its filter_by)
FinalCandidatesAnyExecution(we, step) ==
  LET rows == {i \in AttemptIds : step_executions[i].step_id = step}
  IN {i \in rows : \A j \in rows :
        step_executions[j].retry_count <= step_executions[i].retry_count}

\* _complete_workflow_execution, lines 575-579: the attempts a pass over the
\* query result can leave in final_statuses for one step.  The query has no
\* ORDER BY and a later row replaces the kept one only when its retry_count
\* is strictly greater, so any row of the highest retry_count can be kept.
FinalCandidates(we, step) ==
  LET rows == {i \in AttemptIds :
                 /\ step_executions[i].workflow_execution_id = we
                 /\ step_executions[i].step_id = step}
  IN {i \in rows : \A j \in rows :
        step_executions[j].retry_count <= step_executions[i].retry_count}

\* the values any_failed (line 582) can take
AnyFailedValues(we) ==
  {b \in BOOLEAN :
     IF b THEN \E s \in Steps : \E i \in FinalCandidates(we, s) :
                 step_executions[i].status = FAILED
          ELSE \A s \in Steps : FinalCandidates(we, s) # {} =>
                 \E i \in FinalCandidates(we, s) :
                   step_executions[i].status # FAILED}

----------------------------------------------------------------------------
\* Step implementations (app/steps) and _execute_single_step

\* the StepResult records; invoked tells whether the step implementation's
\* execute was called to produce the result
Success(output) ==
  [status |-> "success", output |-> output, code |-> "none",
   error_type |-> "none", retryable |-> FALSE, metadata |-> "step",
   invoked |-> TRUE]

Failure(code, error_type, retryable, metadata, invoked) ==
  [status |-> "failure", output |-> JsonNull, code |-> code,
   error_type |-> error_type, retryable |-> retryable,
   metadata |-> metadata, invoked |-> invoked]

\* InputStep.execute: the input passes through
InputStepExecute(input) == Success(input)

\* TransformStep.execute: the input with the processing keys added
TransformStepExecute(input) ==
  Success(IF IsDict(input)
            THEN JsonMap(input.value, input.rest \cup {"processed"})
            ELSE JsonMap("absent", {"original_input", "processed"}))

fail_count == 2

\* TransientFailStep.__init__
NewTransientFailStep == [attempt_count |-> 0]

\* TransientFailStep.execute on an instance: the instance after the call and
\* the result
TransientFailStepExecute(instance) ==
  LET attempt_count == instance.attempt_count + 1
  IN [instance |-> [instance EXCEPT !.attempt_count = attempt_count],
      result |-> IF attempt_count <= fail_count
                   THEN Failure("TRANSIENT_FAILURE", "transient", TRUE,
                                "step", TRUE)
                   ELSE Success(JsonMap("absent", {"result", "attempts"}))]

\* HttpStep.execute: a 2xx response, a 5xx response or a network error, a 4xx
\* response
HttpStepExecute ==
  {Success(JsonMap("absent", {"_status"})),
   Failure("HTTP_ERROR", "transient", TRUE, "step", TRUE),
   Failure("HTTP_ERROR", "permanent", FALSE, "step", TRUE)}

StepTypes == {"manual", "logic", "api", "api_http"}

\* _instantiate_step(step) followed by step_instance.execute(input, context):
\* the results the call can return.  The instance is built for this call.
InstantiateAndExecute(type, input) ==
  IF type = "manual" THEN {InputStepExecute(input)}
  ELSE IF type = "logic" THEN {TransformStepExecute(input)}
  ELSE IF type = "api"
    THEN {TransientFailStepExecute(NewTransientFailStep).result}
  ELSE HttpStepExecute

\* the seconds a step call can take
Durations == 1..MaxDuration

\* ValidateOutput classifying the rewritten result as transient
ValidateOutputTransient(step, result) ==
  IF /\ result.status = "success"
     /\ step.output_schema # NoSchema
     /\ ~Validates(step.output_schema, result.output)
    THEN Failure("VALIDATION_ERROR", "transient", TRUE, result.metadata,
                 result.invoked)
    ELSE result

\* lines 429-442: a successful result whose output violates the output
\* schema is rewritten, keeping the metadata of the step's result
ValidateOutput(step, result) ==
  IF /\ result.status = "success"
     /\ step.output_schema # NoSchema
     /\ ~Validates(step.output_schema, result.output)
    THEN Failure("VALIDATION_ERROR", "permanent", FALSE, result.metadata,
                 result.invoked)
    ELSE result

\* TimeoutResult classified as permanent
TimeoutResultPermanent ==
  Failure("TIMEOUT", "permanent", FALSE, "synthetic", TRUE)

\* lines 444-463: the result made when func_timeout raises FunctionTimedOut
TimeoutResult == Failure("TIMEOUT", "transient", TRUE, "synthetic", TRUE)

\* _execute_single_step lines 410-463: the StepResults it can return for a
\* step and the current input
ExecuteSingleStep(step, current_input) ==
  IF /\ step.input_schema # NoSchema
     /\ ~Validates(step.input_schema, Wrap(current_input))
    THEN {Failure("VALIDATION_ERROR", "permanent", FALSE, "none", FALSE)}
    ELSE {ValidateOutput(step, r) :
            r \in {x \in InstantiateAndExecute(step.type, current_input) :
                     \E d \in Durations : d <= step.timeout_seconds}}
         \cup {r \in {TimeoutResult} :
                 \E d \in Durations : d > step.timeout_seconds}

\* ResultKind reading the retryable flag of the error, not its error_type
ResultKindRetryable(result) ==
  IF result.status = "success" THEN "success"
  ELSE IF result.retryable THEN "transient" ELSE "permanent"

\* how the step loop sees a result: success, or the error_type of a failure
ResultKind(result) ==
  IF result.status = "success" THEN "success" ELSE result.error_type

Return(f, outcome) ==
  [IdleFrame EXCEPT !.kind = f.kind, !.pc = "done", !.we = f.we,
                    !.outcome = outcome]

\* AfterSuccess returning after the last step without completing the workflow
AfterSuccessNoComplete(f) ==
  IF f.step < Len(steps)
    THEN [f EXCEPT !.pc = "create", !.step = f.step + 1, !.single = FALSE,
                   !.result = "none"]
    ELSE Return(f, "returned")

\* where the step loop goes once the attempt of f.step ended in SUCCESS
AfterSuccess(f) ==
  IF f.step < Len(steps)
    THEN [f EXCEPT !.pc = "create", !.step = f.step + 1, !.single = FALSE,
                   !.result = "none"]
    ELSE [f EXCEPT !.pc = "complete", !.single = FALSE, !.result = "none"]

\* AfterFailure asking _should_retry for the attempt of resume_execution too
AfterFailureRetryManual(f, se, result) ==
  IF ShouldRetry(f.step, se, result)
    THEN [f EXCEPT !.pc = "backoff", !.result = result]
    ELSE [f EXCEPT !.pc = "complete", !.single = FALSE, !.result = "none"]

\* where the call goes once the attempt of f.step ended in FAILED: the step
\* loop asks _should_retry (line 323), resume_execution (lines 210-229) goes
\* on to complete the workflow
AfterFailure(f, se, result) ==
  IF ~f.single /\ ShouldRetry(f.step, se, result)
    THEN [f EXCEPT !.pc = "backoff", !.result = result]
    ELSE [f EXCEPT !.pc = "complete", !.single = FALSE, !.result = "none"]

----------------------------------------------------------------------------
\* LinearExecutor.execute

\* lines 79-89: create the WorkflowExecution in PENDING and commit
ExecuteCreateWith(c, trigger_input) ==
  /\ Finished(c)
  /\ Len(executions) < MaxExecutions
  /\ \E t \in Times(now) :
       /\ now' = t
       /\ executions' = Append(executions,
            [NewWorkflowExecution(t) EXCEPT !.trigger_input = trigger_input])
  /\ calls' = [calls EXCEPT ![c] =
       [IdleFrame EXCEPT !.kind = "execute", !.pc = "ex_start",
                         !.we = Len(executions) + 1,
                         !.trigger_input = trigger_input]]
  /\ UNCHANGED <<steps, step_executions, sm, logs>>

\* execute(workflow, {"test": "data"})
ExecuteCreate(c) == ExecuteCreateWith(c, TestData)

\* lines 92-94: transition to RUNNING, commit
ExecuteStart(c) ==
  /\ calls[c].pc = "ex_start"
  /\ \E t \in Times(now) :
       LET f == calls[c]
           tr == WorkflowTransitionTo(executions[f.we], RUNNING, t)
       IN /\ now' = t
          /\ IF tr.raised
               THEN /\ calls' = [calls EXCEPT ![c] =
                          Return(f, "InvalidStateTransitionError")]
                    /\ UNCHANGED executions
               ELSE /\ executions' = [executions EXCEPT ![f.we] = tr.rec]
                    /\ calls' = [calls EXCEPT ![c] =
                          [f EXCEPT !.pc = "ex_log"]]
  /\ UNCHANGED <<steps, step_executions, sm, logs>>

\* lines 96-106 and 254: the log "Workflow execution started", commit,
\* enter _execute_steps with current_input = trigger_input
LogWorkflowStarted(c) ==
  /\ calls[c].pc = "ex_log"
  /\ \E t \in Times(now) :
       LET f == calls[c]
       IN /\ now' = t
          /\ logs' = Append(logs,
               NewExecutionLog(Null, "Workflow execution started", "RUNNING",
                               f.we, t))
          /\ calls' = [calls EXCEPT ![c] =
               [f EXCEPT !.pc = "create", !.step = 1,
                         !.current_input = f.trigger_input]]
  /\ UNCHANGED <<steps, executions, step_executions, sm>>

\* CreateStepExecution giving every step the trigger input
CreateStepExecutionFromTrigger(c) ==
  /\ calls[c].pc = "create"
  /\ HasRoom
  /\ \E t \in Times(now) :
       LET f == calls[c]
       IN /\ now' = t
          /\ step_executions' = Append(step_executions,
               NewStepExecution(f.we, f.step, 0, FALSE, Null,
                                Wrap(f.trigger_input), t))
          /\ calls' = [calls EXCEPT ![c] =
               [f EXCEPT !.pc = "start", !.se = Len(step_executions) + 1]]
  /\ UNCHANGED <<steps, executions, sm, logs>>

\* CreateStepExecution creating the PENDING attempt of the step after it too
CreateStepExecutionAhead(c) ==
  /\ calls[c].pc = "create"
  /\ HasRoom
  /\ \E t \in Times(now) :
       LET f == calls[c]
           row == NewStepExecution(f.we, f.step, 0, FALSE, Null,
                                   Wrap(f.current_input), t)
       IN /\ now' = t
          /\ step_executions' =
               IF f.step < Len(steps)
                 THEN Append(Append(step_executions, row),
                             [row EXCEPT !.step_id = f.step + 1])
                 ELSE Append(step_executions, row)
          /\ calls' = [calls EXCEPT ![c] =
               [f EXCEPT !.pc = "start", !.se = Len(step_executions) + 1]]
  /\ UNCHANGED <<steps, executions, sm, logs>>

\* _execute_steps lines 257-268: first attempt of the next step, PENDING
CreateStepExecution(c) ==
  /\ calls[c].pc = "create"
  /\ HasRoom
  /\ \E t \in Times(now) :
       LET f == calls[c]
       IN /\ now' = t
          /\ step_executions' = Append(step_executions,
               NewStepExecution(f.we, f.step, 0, FALSE, Null,
                                Wrap(f.current_input), t))
          /\ calls' = [calls EXCEPT ![c] =
               [f EXCEPT !.pc = "start", !.se = Len(step_executions) + 1]]
  /\ UNCHANGED <<steps, executions, sm, logs>>

\* StartStep going on to the step call with the attempt left as it was
StartStepNoTransition(c) ==
  /\ calls[c].pc = "start"
  /\ \E t \in Times(now) :
       /\ now' = t
       /\ calls' = [calls EXCEPT ![c] = [calls[c] EXCEPT !.pc = "log_start"]]
  /\ UNCHANGED <<steps, executions, step_executions, sm, logs>>

\* _execute_single_step lines 380-381: attempt to RUNNING, commit
StartStep(c) ==
  /\ calls[c].pc = "start"
  /\ \E t \in Times(now) :
       LET f == calls[c]
           tr == StepTransitionTo(step_executions[f.se], RUNNING, t)
       IN /\ now' = t
          /\ IF tr.raised
               THEN /\ calls' = [calls EXCEPT ![c] =
                          Return(f, "InvalidStateTransitionError")]
                    /\ UNCHANGED step_executions
               ELSE /\ step_executions' =
                          [step_executions EXCEPT ![f.se] = tr.rec]
                    /\ calls' = [calls EXCEPT ![c] =
                          [f EXCEPT !.pc = "log_start"]]
  /\ UNCHANGED <<steps, executions, sm, logs>>

\* _execute_single_step lines 383-390: the log "Step started", commit
LogStepStarted(c) ==
  /\ calls[c].pc = "log_start"
  /\ \E t \in Times(now) :
       LET f == calls[c]
       IN /\ now' = t
          /\ logs' = Append(logs,
               NewExecutionLog(f.se, "Step started", "RUNNING", f.we, t))
          /\ calls' = [calls EXCEPT ![c] = [f EXCEPT !.pc = "call"]]
  /\ UNCHANGED <<steps, executions, step_executions, sm>>

\* Recorded keeping the error of a failure but not its error_type
RecordedNoErrorType(rec, result) ==
  IF result.status = "success"
    THEN [rec EXCEPT !.has_output = TRUE, !.output = result.output,
                     !.invoked = result.invoked,
                     !.result_metadata = result.metadata]
    ELSE [rec EXCEPT !.error_code = result.code,
                     !.invoked = result.invoked,
                     !.result_metadata = result.metadata]

\* the attempt's row after the result was recorded (lines 278-279, 299-302)
Recorded(rec, result) ==
  IF result.status = "success"
    THEN [rec EXCEPT !.has_output = TRUE, !.output = result.output,
                     !.invoked = result.invoked,
                     !.result_metadata = result.metadata]
    ELSE [rec EXCEPT !.error_code = result.code,
                     !.error_type = result.error_type,
                     !.invoked = result.invoked,
                     !.result_metadata = result.metadata]

\* lines 392-400: the trigger_input of the ExecutionContext is the argument
\* trigger_input of _execute_single_step
ContextTriggerInput(f) == f.trigger_input

\* the log added with the transition of the attempt (lines 282-287 and
\* 305-315 in _execute_steps, 178-183 and 194-205 in resume_execution)
LogStepEnded(f, result, t) ==
  IF result = "success"
    THEN NewExecutionLog(f.se, "Step completed successfully", "SUCCESS",
                         f.we, t)
    ELSE NewExecutionLog(f.se, "Step failed", "FAILED", f.we, t)

\* _execute_single_step lines 410-463 returns a StepResult (success, or a
\* failure whose error_type is transient or permanent); the caller records
\* it, adds the log and commits (lines 276-320 in _execute_steps, 172-208 in
\* resume_execution)
StepReturn(c, result) ==
  /\ calls[c].pc = "call"
  /\ \E t \in Times(now) :
     \E res \in ExecuteSingleStep(steps[calls[c].step],
                                  calls[c].current_input) :
       LET f == calls[c]
           se == step_executions[f.se]
           tr == StepTransitionTo(se,
                   IF result = "success" THEN SUCCESS ELSE FAILED, t)
       IN /\ ResultKind(res) = result
          /\ now' = t
          /\ IF tr.raised
               THEN /\ calls' = [calls EXCEPT ![c] =
                          Return(f, "InvalidStateTransitionError")]
                    /\ UNCHANGED <<step_executions, logs>>
               ELSE /\ step_executions' = [step_executions EXCEPT ![f.se] =
                          Recorded(
                            [tr.rec EXCEPT !.context_trigger_input =
                               ContextTriggerInput(f)], res)]
                    /\ logs' = Append(logs, LogStepEnded(f, result, t))
                    /\ calls' = [calls EXCEPT ![c] =
                          IF result = "success"
                            THEN AfterSuccess(
                                   [f EXCEPT !.current_input = res.output])
                          ELSE AfterFailure(f, se, result)]
  /\ UNCHANGED <<steps, executions, sm>>

\* lines 464-468: an exception escaping the step is re-raised to the caller
StepRaise(c) ==
  /\ calls[c].pc = "call"
  /\ calls' = [calls EXCEPT ![c] = Return(calls[c], "StepException")]
  /\ UNCHANGED <<steps, executions, step_executions, now, sm, logs>>

\* lines 325-338: the log "Retrying step after ...s backoff" on the failed
\* attempt, with the backoff_seconds and next_retry of its log_metadata,
\* commit
LogRetry(c) ==
  /\ calls[c].pc = "backoff"
  /\ \E t \in Times(now) :
       LET f == calls[c]
       IN /\ now' = t
          /\ logs' = Append(logs,
               [step_execution_id |-> f.se, message |-> "Retrying step",
                status |-> "RETRYING", workflow_execution_id |-> f.we,
                timestamp |-> t,
                backoff_seconds |-> BackoffSeconds(steps[f.step]),
                next_retry |-> step_executions[f.se].retry_count + 1])
          /\ calls' = [calls EXCEPT ![c] = [f EXCEPT !.pc = "retry"]]
  /\ UNCHANGED <<steps, executions, step_executions, sm>>

\* CreateRetry leaving is_retry at its default
CreateRetryNoFlag(c) ==
  /\ calls[c].pc = "retry"
  /\ HasRoom
  /\ \E t \in Times(now + BackoffSeconds(steps[calls[c].step])) :
       LET f == calls[c]
           prev == step_executions[f.se]
       IN /\ now' = t
          /\ step_executions' = Append(step_executions,
               NewStepExecution(f.we, f.step, prev.retry_count + 1, FALSE,
                                f.se, Wrap(f.current_input), t))
          /\ calls' = [calls EXCEPT ![c] =
               [f EXCEPT !.pc = "start", !.se = Len(step_executions) + 1,
                         !.result = "none"]]
  /\ UNCHANGED <<steps, executions, sm, logs>>

\* CreateRetry storing current_input as it is
CreateRetryRawInput(c) ==
  /\ calls[c].pc = "retry"
  /\ HasRoom
  /\ \E t \in Times(now + BackoffSeconds(steps[calls[c].step])) :
       LET f == calls[c]
           prev == step_executions[f.se]
       IN /\ now' = t
          /\ step_executions' = Append(step_executions,
               NewStepExecution(f.we, f.step, prev.retry_count + 1, TRUE,
                                f.se, f.current_input, t))
          /\ calls' = [calls EXCEPT ![c] =
               [f EXCEPT !.pc = "start", !.se = Len(step_executions) + 1,
                         !.result = "none"]]
  /\ UNCHANGED <<steps, executions, sm, logs>>

\* CreateRetry without the sleep of line 342
CreateRetryNoSleep(c) ==
  /\ calls[c].pc = "retry"
  /\ HasRoom
  /\ \E t \in Times(now) :
       LET f == calls[c]
           prev == step_executions[f.se]
       IN /\ now' = t
          /\ step_executions' = Append(step_executions,
               NewStepExecution(f.we, f.step, prev.retry_count + 1, TRUE,
                                f.se, Wrap(f.current_input), t))
          /\ calls' = [calls EXCEPT ![c] =
               [f EXCEPT !.pc = "start", !.se = Len(step_executions) + 1,
                         !.result = "none"]]
  /\ UNCHANGED <<steps, executions, sm, logs>>

\* lines 340-365: time.sleep(backoff_seconds), then the successor attempt in
\* PENDING, commit
CreateRetry(c) ==
  /\ calls[c].pc = "retry"
  /\ HasRoom
  /\ \E t \in Times(now + BackoffSeconds(steps[calls[c].step])) :
       LET f == calls[c]
           prev == step_executions[f.se]
       IN /\ now' = t
          /\ step_executions' = Append(step_executions,
               NewStepExecution(f.we, f.step, prev.retry_count + 1, TRUE,
                                f.se, Wrap(f.current_input), t))
          /\ calls' = [calls EXCEPT ![c] =
               [f EXCEPT !.pc = "start", !.se = Len(step_executions) + 1,
                         !.result = "none"]]
  /\ UNCHANGED <<steps, executions, sm, logs>>

\* _complete_workflow_execution lines 568-610: the transition and its log
\* in one commit
CompleteWorkflowExecution(c) ==
  /\ calls[c].pc = "complete"
  /\ \E t \in Times(now) : \E any_failed \in AnyFailedValues(calls[c].we) :
       LET f == calls[c]
           tr == WorkflowTransitionTo(executions[f.we],
                   IF any_failed THEN FAILED ELSE SUCCESS, t)
       IN /\ now' = t
          /\ IF tr.raised
               THEN /\ calls' = [calls EXCEPT ![c] =
                          Return(f, "InvalidStateTransitionError")]
                    /\ UNCHANGED <<executions, logs>>
               ELSE /\ executions' = [executions EXCEPT ![f.we] = tr.rec]
                    /\ logs' = Append(logs,
                         IF any_failed
                           THEN NewExecutionLog(Null,
                                  "Workflow execution failed", "FAILED",
                                  f.we, t)
                           ELSE NewExecutionLog(Null,
                                  "Workflow execution completed successfully",
                                  "SUCCESS", f.we, t))
                    /\ calls' = [calls EXCEPT ![c] = Return(f, "returned")]
  /\ UNCHANGED <<steps, step_executions, sm>>

----------------------------------------------------------------------------
\* LinearExecutor.resume_execution

\* lines 127-133: an id that matches no row raises ValueError
ResumeNotFound(c, weid, seid) ==
  /\ Finished(c)
  /\ weid \notin ExecutionIds \/ seid \notin AttemptIds
  /\ calls' = [calls EXCEPT ![c] =
       [IdleFrame EXCEPT !.kind = "resume", !.pc = "done",
                         !.outcome = "ValueError"]]
  /\ UNCHANGED <<steps, executions, step_executions, now, sm, logs>>

\* lines 127-141: load the rows; a FAILED execution is set to RUNNING by
\* direct assignment and committed.  The call passes trigger_input=None on
\* (lines 167 and 224), the frame's trigger_input stays JsonNull
ResumeLoad(c, weid, seid) ==
  /\ Finished(c)
  /\ weid \in ExecutionIds
  /\ seid \in AttemptIds
  /\ executions' = IF executions[weid].status = FAILED
                     THEN [executions EXCEPT ![weid].status = RUNNING]
                     ELSE executions
  /\ calls' = [calls EXCEPT ![c] =
       [IdleFrame EXCEPT !.kind = "resume", !.pc = "rs_create", !.we = weid,
                         !.se = seid,
                         !.step = step_executions[seid].step_id,
                         !.current_input = step_executions[seid].input]]
  /\ UNCHANGED <<steps, step_executions, now, sm, logs>>

\* ResumeCreateRetry putting the given attempt's row back to PENDING instead
\* of appending a row
ResumeReuseRow(c) ==
  /\ calls[c].pc = "rs_create"
  /\ HasRoom
  /\ \E t \in Times(now) :
       LET f == calls[c]
           prev == step_executions[f.se]
       IN /\ now' = t
          /\ step_executions' = [step_executions EXCEPT ![f.se] =
               [NewStepExecution(f.we, f.step, prev.retry_count + 1, TRUE,
                                 prev.parent_step_execution_id, prev.input, t)
                  EXCEPT !.manual = TRUE]]
          /\ calls' = [calls EXCEPT ![c] =
               [f EXCEPT !.pc = "start", !.single = TRUE]]
  /\ UNCHANGED <<steps, executions, sm, logs>>

\* ResumeCreateRetry giving the new attempt the retry_count of the given one
ResumeCreateRetrySameCount(c) ==
  /\ calls[c].pc = "rs_create"
  /\ HasRoom
  /\ \E t \in Times(now) :
       LET f == calls[c]
           prev == step_executions[f.se]
       IN /\ now' = t
          /\ step_executions' = Append(step_executions,
               [NewStepExecution(f.we, f.step, prev.retry_count, TRUE,
                                 f.se, prev.input, t)
                  EXCEPT !.manual = TRUE])
          /\ calls' = [calls EXCEPT ![c] =
               [f EXCEPT !.pc = "start", !.se = Len(step_executions) + 1,
                         !.single = TRUE]]
  /\ UNCHANGED <<steps, executions, sm, logs>>

\* lines 143-159: the manual-retry attempt, PENDING, child of the given one
ResumeCreateRetry(c) ==
  /\ calls[c].pc = "rs_create"
  /\ HasRoom
  /\ \E t \in Times(now) :
       LET f == calls[c]
           prev == step_executions[f.se]
       IN /\ now' = t
          /\ step_executions' = Append(step_executions,
               [NewStepExecution(f.we, f.step, prev.retry_count + 1, TRUE,
                                 f.se, prev.input, t)
                  EXCEPT !.manual = TRUE])
          /\ calls' = [calls EXCEPT ![c] =
               [f EXCEPT !.pc = "start", !.se = Len(step_executions) + 1,
                         !.single = TRUE]]
  /\ UNCHANGED <<steps, executions, sm, logs>>

----------------------------------------------------------------------------
\* Specification: calls run one after another on one frame

StepResults == {"success", "transient", "permanent"}

RetryConfigs == {NoRetryConfig} \cup 0..MaxRetries

InitSm == [kind |-> "none", before |-> NewWorkflowExecution(0),
           rec |-> NewWorkflowExecution(0), asked |-> "none",
           raised |-> FALSE]

\* an HttpStep without schemas that answers within its deadline
HttpStepRow(retry_config) ==
  StepRow("api_http", retry_config, NoSchema, NoSchema, MaxDuration)

\* the workflows of n such steps
Workflows(n) == [1..n -> {HttpStepRow(rc) : rc \in RetryConfigs}]

Init ==
  /\ \E n \in 1..NSteps : steps \in Workflows(n)
  /\ executions = <<>>
  /\ step_executions = <<>>
  /\ logs = <<>>
  /\ calls = [c \in Calls |-> IdleFrame]
  /\ now = 0
  /\ sm = InitSm

Execute(c) ==
  \/ ExecuteCreate(c)
  \/ ExecuteStart(c)
  \/ LogWorkflowStarted(c)

\* the step loop while every step call returns a StepResult
StepLoop(c) ==
  \/ CreateStepExecution(c)
  \/ StartStep(c)
  \/ LogStepStarted(c)
  \/ \E r \in StepResults : StepReturn(c, r)
  \/ LogRetry(c)
  \/ CreateRetry(c)

ExecuteSteps(c) ==
  \/ StepLoop(c)
  \/ StepRaise(c)

Resume(c) ==
  \/ \E weid \in ExecutionIds \cup {Null} :
       \E seid \in AttemptIds \cup {Null} : ResumeNotFound(c, weid, seid)
  \/ \E weid \in ExecutionIds : \E seid \in AttemptIds :
       ResumeLoad(c, weid, seid)
  \/ ResumeCreateRetry(c)

Next ==
  \E c \in SeqCalls :
    \/ Execute(c)
    \/ ExecuteSteps(c)
    \/ CompleteWorkflowExecution(c)
    \/ Resume(c)

Spec == Init /\ [][Next]_vars

----------------------------------------------------------------------------
\* SpecSM: transition_to called on a detached object, as the unit tests of
\* the two state machines do (test_*_execution_state_machine.py)

\* an object the tests construct in the given status
ModelObject(status) ==
  [status |-> status, created_at |-> 0,
   started_at |-> IF status = PENDING THEN NoTime ELSE 0,
   finished_at |-> IF status \in {PENDING, RUNNING} THEN NoTime ELSE 0,
   was_running |-> status # PENDING]

StatusesOf(kind) ==
  IF kind = "workflow" THEN WorkflowExecutionStatus ELSE StepExecutionStatus

InitSM ==
  /\ steps = <<>>
  /\ executions = <<>>
  /\ step_executions = <<>>
  /\ logs = <<>>
  /\ calls = [c \in Calls |-> IdleFrame]
  /\ now = 0
  /\ \E kind \in {"workflow", "step"} : \E status \in StatusesOf(kind) :
       sm = [kind |-> kind, before |-> ModelObject(status),
             rec |-> ModelObject(status), asked |-> "none", raised |-> FALSE]

\* one call of transition_to(new_status) on the object
TransitionTo(new_status) ==
  /\ now < MaxTransitions
  /\ new_status \in StatusesOf(sm.kind)
  /\ \E t \in Times(now) :
       LET tr == IF sm.kind = "workflow"
                   THEN WorkflowTransitionTo(sm.rec, new_status, t)
                   ELSE StepTransitionTo(sm.rec, new_status, t)
       IN /\ now' = t
          /\ sm' = [sm EXCEPT !.before = sm.rec, !.rec = tr.rec,
                              !.asked = new_status, !.raised = tr.raised]
  /\ UNCHANGED <<steps, executions, step_executions, calls, logs>>

NextSM ==
  \E new_status \in WorkflowExecutionStatus \cup StepExecutionStatus :
    TransitionTo(new_status)

SpecSM == InitSM /\ [][NextSM]_vars

----------------------------------------------------------------------------
\* SpecResult: StepResult(status, output, error) constructed from any
\* arguments, as test_executor_contract.py does (core/executor_contract.py)

\* error=None
NoError == [code |-> "none", error_type |-> "none", retryable |-> FALSE]

\* StepError(code, message, retryable, error_type) that __post_init__ accepts
StepErrors ==
  [code : {"ERROR", "TIMEOUT"}, error_type : {"transient", "permanent"},
   retryable : BOOLEAN]

\* StepResult.__post_init__: whether it raises ValueError
StepResultPostInit(status, output, error) ==
  IF status \notin {"success", "failure"} THEN "ValueError"
  ELSE IF status = "success" /\ error # NoError THEN "ValueError"
  ELSE IF status = "failure" /\ error = NoError THEN "ValueError"
  ELSE "constructed"

InitResult ==
  /\ steps = <<>>
  /\ executions = <<>>
  /\ step_executions = <<>>
  /\ logs = <<>>
  /\ calls = [c \in Calls |-> IdleFrame]
  /\ now = 0
  /\ \E status \in {"success", "failure", "pending"} :
     \E output \in {JsonNull, JsonInt, TestData, NotAnInt, ValueMap} :
     \E error \in StepErrors \cup {NoError} :
       sm = [kind |-> "StepResult", status |-> status, output |-> output,
             error |-> error, outcome |-> "none"]

\* the call StepResult(status=..., output=..., error=...)
ConstructStepResult ==
  /\ sm.outcome = "none"
  /\ sm' = [sm EXCEPT !.outcome =
              StepResultPostInit(sm.status, sm.output, sm.error)]
  /\ UNCHANGED <<steps, executions, step_executions, calls, now, logs>>

SpecResult == InitResult /\ [][ConstructStepResult]_vars

----------------------------------------------------------------------------
\* SpecExecute: execute calls only, every step call returning a StepResult,
\* and the call that is running keeps running

NextExecute ==
  \E c \in SeqCalls :
    \/ Execute(c)
    \/ StepLoop(c)
    \/ CompleteWorkflowExecution(c)

SpecExecute == Init /\ [][NextExecute]_vars /\ WF_vars(NextExecute)

----------------------------------------------------------------------------
\* SpecContract: Spec with steps that keep the step contract, no exception
\* escaping a step call

NextContract ==
  \E c \in SeqCalls :
    \/ Execute(c)
    \/ StepLoop(c)
    \/ CompleteWorkflowExecution(c)
    \/ Resume(c)

SpecContract == Init /\ [][NextContract]_vars

----------------------------------------------------------------------------
\* SpecLong: SpecContract on a workflow one step longer, first step with
\* retries

LongWorkflow ==
  [s \in 1..(NSteps + 1) |->
     HttpStepRow(IF s = 1 THEN MaxRetries ELSE NoRetryConfig)]

InitLong ==
  /\ steps = LongWorkflow
  /\ executions = <<>>
  /\ step_executions = <<>>
  /\ logs = <<>>
  /\ calls = [c \in Calls |-> IdleFrame]
  /\ now = 0
  /\ sm = InitSm

SpecLong == InitLong /\ [][NextContract]_vars

----------------------------------------------------------------------------
\* SpecResume: SpecContract on workflows whose first step allows one retry
\* more, so that an attempt made by resume_execution is below max_retries

ResumeWorkflows ==
  {<<HttpStepRow(MaxRetries + 1)>>,
   <<HttpStepRow(MaxRetries + 1), HttpStepRow(NoRetryConfig)>>}

InitResume ==
  /\ steps \in ResumeWorkflows
  /\ executions = <<>>
  /\ step_executions = <<>>
  /\ logs = <<>>
  /\ calls = [c \in Calls |-> IdleFrame]
  /\ now = 0
  /\ sm = InitSm

SpecResume == InitResume /\ [][NextContract]_vars

----------------------------------------------------------------------------
\* SpecData: SpecContract on workflows of the repository's step types, with
\* schemas, deadlines and the trigger inputs of the tests

\* mappings without a "value", with one that is no integer and with one
\* that is, an integer and None
TriggerInputs == {TestData, NotAnInt, ValueMap, JsonInt, JsonNull}

\* "Workflow 0b - Retry Test" of verify_retry.py: MANUAL, then API with
\* retry_config {"max_retries": 2, "backoff_seconds": 0}
RetryWorkflow ==
  <<StepRow("manual", NoRetryConfig, NoSchema, NoSchema, MaxDuration),
    WithBackoff(StepRow("api", 2, NoSchema, NoSchema, MaxDuration), 0)>>

\* step declarations: a pass-through; a transform that validates its input,
\* one that validates its output; an HTTP call with a deadline it can miss;
\* an HTTP call whose retry_config names no max_retries
DataSteps ==
  {StepRow("manual", NoRetryConfig, NoSchema, NoSchema, MaxDuration),
   StepRow("logic", MaxRetries, ValueInteger, NoSchema, MaxDuration),
   StepRow("logic", MaxRetries, NoSchema, ValueInteger, MaxDuration),
   StepRow("api_http", MaxRetries, NoSchema, NoSchema, 1),
   StepRow("api_http", NoMaxRetries, NoSchema, NoSchema, MaxDuration)}

\* the declarations a second step is drawn from: the validating transforms
LaterSteps == {a \in DataSteps : a.type = "logic"}

DataWorkflows ==
  {RetryWorkflow} \cup {<<a>> : a \in DataSteps}
    \cup {<<a, b>> : a \in DataSteps, b \in LaterSteps}

InitData ==
  /\ steps \in DataWorkflows
  /\ executions = <<>>
  /\ step_executions = <<>>
  /\ logs = <<>>
  /\ calls = [c \in Calls |-> IdleFrame]
  /\ now = 0
  /\ sm = InitSm

ExecuteAny(c) ==
  \/ \E trigger_input \in TriggerInputs : ExecuteCreateWith(c, trigger_input)
  \/ ExecuteStart(c)
  \/ LogWorkflowStarted(c)

NextData ==
  \E c \in SeqCalls :
    \/ ExecuteAny(c)
    \/ StepLoop(c)
    \/ CompleteWorkflowExecution(c)
    \/ Resume(c)

SpecData == InitData /\ [][NextData]_vars

----------------------------------------------------------------------------
\* Properties

RowsOf(w, s) ==
  {i \in AttemptIds : /\ step_executions[i].workflow_execution_id = w
                      /\ step_executions[i].step_id = s}

\* the pairs (current, new) the transition tables of section 3 allow
LegalPairs(kind) ==
  {<<PENDING, RUNNING>>, <<RUNNING, SUCCESS>>, <<RUNNING, FAILED>>,
   IF kind = "workflow" THEN <<RUNNING, CANCELLED>> ELSE <<RUNNING, SKIPPED>>}

\* C1: transition_to(new) succeeds exactly for PENDING->RUNNING and
\* RUNNING->{SUCCESS, FAILED, CANCELLED (workflow) / SKIPPED (step)}; for
\* every other pair, transitions out of a terminal status included, it raises
\* and leaves status, started_at and finished_at as they were.
C1_TransitionLegality ==
  sm.asked # "none" =>
    /\ sm.raised <=> <<sm.before.status, sm.asked>> \notin LegalPairs(sm.kind)
    /\ sm.raised =>
         /\ sm.rec.status = sm.before.status
         /\ sm.rec.started_at = sm.before.started_at
         /\ sm.rec.finished_at = sm.before.finished_at
    /\ ~sm.raised => sm.rec.status = sm.asked

\* a step attempt in RUNNING was asked to go back to PENDING and refused
C1_Witness ==
  /\ sm.kind = "step"
  /\ sm.before.status = RUNNING
  /\ sm.asked = PENDING
  /\ sm.raised

\* C2: a StepExecution row in a terminal status is never changed (or
\* removed) by a later commit, and a WorkflowExecution row in a terminal
\* status is changed by nothing but resume_execution setting FAILED back to
\* RUNNING.
C2_TerminalImmutable ==
  [][/\ Len(step_executions') >= Len(step_executions)
     /\ Len(executions') >= Len(executions)
     /\ \A i \in AttemptIds :
          step_executions[i].status \in StepTerminal =>
            step_executions'[i] = step_executions[i]
     /\ \A w \in ExecutionIds :
          executions[w].status \in WorkflowTerminal =>
            \/ executions'[w] = executions[w]
            \/ /\ executions[w].status = FAILED
               /\ executions'[w] = [executions[w] EXCEPT !.status = RUNNING]
               /\ \E c \in Calls : /\ Finished(c)
                                   /\ calls'[c].kind = "resume"
                                   /\ calls'[c].pc = "rs_create"
                                   /\ calls'[c].we = w]_vars

\* resume_execution ran a new attempt on an execution that was SUCCESS and
\* its completion was refused
C2_Witness ==
  \E c \in Calls :
    /\ calls[c].kind = "resume"
    /\ calls[c].pc = "done"
    /\ calls[c].outcome = "InvalidStateTransitionError"
    /\ executions[calls[c].we].status = SUCCESS
    /\ \E i \in AttemptIds :
         /\ step_executions[i].workflow_execution_id = calls[c].we
         /\ step_executions[i].is_retry
         /\ step_executions[i].status \in StepTerminal

\* C3: for every WorkflowExecution and StepExecution row, started_at is set
\* iff the row has ever been RUNNING and finished_at is set iff its current
\* status is terminal.
C3_Timestamps ==
  /\ \A w \in ExecutionIds :
       /\ executions[w].started_at # NoTime <=> executions[w].was_running
       /\ executions[w].finished_at # NoTime <=>
            executions[w].status \in WorkflowTerminal
  /\ \A i \in AttemptIds :
       /\ step_executions[i].started_at # NoTime <=>
            step_executions[i].was_running
       /\ step_executions[i].finished_at # NoTime <=>
            step_executions[i].status \in StepTerminal

TimesOrdered(rec) ==
  /\ rec.started_at # NoTime
  /\ rec.created_at <= rec.started_at
  /\ rec.started_at <= rec.finished_at

\* C4: every StepExecution that reached RUNNING has started_at set, and
\* every terminal StepExecution and WorkflowExecution has
\* created_at <= started_at <= finished_at.
C4_TimestampOrder ==
  /\ \A i \in AttemptIds :
       /\ step_executions[i].was_running =>
            step_executions[i].started_at # NoTime
       /\ step_executions[i].status \in StepTerminal =>
            TimesOrdered(step_executions[i])
  /\ \A w \in ExecutionIds :
       executions[w].status \in WorkflowTerminal =>
         TimesOrdered(executions[w])

\* an execution completed a second time, by resume_execution
C4_Witness ==
  \E c \in Calls :
    /\ calls[c].kind = "resume"
    /\ calls[c].pc = "done"
    /\ calls[c].outcome = "returned"
    /\ executions[calls[c].we].status \in WorkflowTerminal
    /\ \E i \in AttemptIds :
         /\ step_executions[i].workflow_execution_id = calls[c].we
         /\ step_executions[i].status \in StepTerminal

ExecuteRunning(c) == calls[c].kind = "execute" /\ ~Finished(c)

\* the call is about to add a row the model's step_executions table cannot take
Blocked(c) == calls[c].pc \in {"create", "retry", "rs_create"} /\ ~HasRoom

ExecuteReturned(c) ==
  /\ calls[c].kind = "execute"
  /\ calls[c].pc = "done"
  /\ calls[c].outcome = "returned"
  /\ executions[calls[c].we].status \in {SUCCESS, FAILED}
  /\ executions[calls[c].we].was_running

EffectiveSuccess(w, s) ==
  /\ FinalCandidates(w, s) # {}
  /\ \A i \in FinalCandidates(w, s) : step_executions[i].status = SUCCESS

EffectiveFailed(w, s) ==
  \E i \in FinalCandidates(w, s) : step_executions[i].status = FAILED

\* C6: once no call is running, a terminal WorkflowExecution is SUCCESS iff
\* for every step the attempt of the highest retry_count is SUCCESS, and it
\* is FAILED if some step's attempt of the highest retry_count is FAILED.
C6_Outcome ==
  NoCallActive =>
    \A w \in ExecutionIds :
      executions[w].status \in WorkflowTerminal =>
        /\ executions[w].status = SUCCESS <=>
             \A s \in Steps : EffectiveSuccess(w, s)
        /\ (\E s \in Steps : EffectiveFailed(w, s)) =>
             executions[w].status = FAILED

\* C7: no StepExecution exists for a step of order k when, for some step of
\* lower order, the attempt of the highest retry_count is FAILED.
C7_Halting ==
  \A w \in ExecutionIds : \A k \in Steps :
    RowsOf(w, k) # {} =>
      \A j \in Steps : j < k => ~EffectiveFailed(w, j)

\* C8: the steps of an execution that have an attempt form a prefix of the
\* workflow's steps: no step with an attempt follows a step without one.
C8_Prefix ==
  \A w \in ExecutionIds : \A k \in Steps :
    RowsOf(w, k) # {} =>
      \A j \in Steps : j < k => RowsOf(w, j) # {}

\* C9: the attempts of one (execution, step) carry the retry_count values
\* 0..n, each once, and every attempt of retry_count r > 0 has as parent the
\* attempt of the same execution and step of retry_count r - 1.
C9_LinearChain ==
  \A w \in ExecutionIds : \A s \in Steps :
    LET rows == RowsOf(w, s)
    IN /\ \A i, j \in rows :
            step_executions[i].retry_count = step_executions[j].retry_count
              => i = j
       /\ \A i \in rows :
            /\ step_executions[i].retry_count < Cardinality(rows)
            /\ step_executions[i].retry_count > 0 =>
                 LET p == step_executions[i].parent_step_execution_id
                 IN /\ p \in rows
                    /\ step_executions[p].retry_count =
                         step_executions[i].retry_count - 1

\* C10: for every StepExecution, is_retry iff retry_count > 0 iff
\* parent_step_execution_id is set.
C10_RetryFlags ==
  \A i \in AttemptIds :
    /\ step_executions[i].is_retry <=> step_executions[i].retry_count > 0
    /\ step_executions[i].retry_count > 0 <=>
         step_executions[i].parent_step_execution_id # Null

\* an automatic retry and a manual retry both exist, next to first attempts
C10_Witness ==
  /\ \E i \in AttemptIds :
       /\ step_executions[i].is_retry
       /\ step_executions[i].retry_count = 2
  /\ \E c \in Calls : calls[c].kind = "resume" /\ calls[c].outcome = "returned"

\* resume_execution created an attempt in execution w
Resumed(w) ==
  \E i \in AttemptIds : /\ step_executions[i].workflow_execution_id = w
                         /\ step_executions[i].manual

\* the most attempts the retry policy gives step s
AttemptLimit(s) ==
  1 + (IF steps[s].retry_config = NoMaxRetries
         THEN 0 ELSE steps[s].retry_config)

\* C11 as stated: for every step with retry config max_retries = M, at most
\* M+1 attempts of that step exist in any single WorkflowExecution.
C11_MaxAttempts ==
  \A w \in ExecutionIds : \A s \in Steps :
    steps[s].retry_config # NoRetryConfig =>
      Cardinality(RowsOf(w, s)) <= AttemptLimit(s)

\* C11 amended: for every step with retry config max_retries = M, at most
\* M+1 attempts of that step exist in a WorkflowExecution in which
\* resume_execution created no attempt (a manual retry adds an attempt
\* whatever M is).
C11_MaxAttemptsUnresumed ==
  \A w \in ExecutionIds : \A s \in Steps :
    steps[s].retry_config # NoRetryConfig /\ ~Resumed(w) =>
      Cardinality(RowsOf(w, s)) <= AttemptLimit(s)

\* execute returned after a step with max_retries = MaxRetries used every
\* attempt the policy gives it, all of them failing
C11_Witness ==
  \E c \in SeqCalls : \E s \in Steps :
    /\ ExecuteReturned(c)
    /\ ~Resumed(calls[c].we)
    /\ steps[s].retry_config = MaxRetries
    /\ Cardinality(RowsOf(calls[c].we, s)) = MaxRetries + 1
    /\ \A i \in RowsOf(calls[c].we, s) : step_executions[i].status = FAILED

\* the retry policy of section 4.6 says yes for the attempt of row rec
RetryDue(rec) ==
  LET retry_config == steps[rec.step_id].retry_config
  IN /\ rec.error_type = "transient"
     /\ retry_config # NoRetryConfig
     /\ retry_config # NoMaxRetries
     /\ rec.retry_count < retry_config

\* row new is the successor attempt of row prev, whose id is id
SuccessorOf(new, prev, id) ==
  /\ new.workflow_execution_id = prev.workflow_execution_id
  /\ new.step_id = prev.step_id
  /\ new.status = PENDING
  /\ new.retry_count = prev.retry_count + 1
  /\ new.parent_step_execution_id = id

\* C12: when an attempt of the step loop ends FAILED, the loop goes on to
\* create a successor attempt iff the error_type is "transient", the step
\* has a retry config and retry_count < max_retries (no max_retries counts
\* as 0), and it creates that successor next; otherwise the loop is left
\* with the attempt FAILED and the workflow is completed.
C12_RetryDecision ==
  [][\A c \in Calls :
       LET f == calls[c]
       IN /\ (/\ f.pc = "call"
               /\ ~f.single
               /\ step_executions'[f.se].status = FAILED)
             => /\ calls'[c].pc \in {"backoff", "complete"}
                /\ calls'[c].pc = "backoff" <=>
                     RetryDue(step_executions'[f.se])
                /\ Len(step_executions') = Len(step_executions)
          /\ (f.pc = "retry" /\ calls'[c] # f)
             => /\ Len(step_executions') = Len(step_executions) + 1
                /\ SuccessorOf(step_executions'[Len(step_executions')],
                               step_executions[f.se], f.se)
                /\ step_executions'[f.se].status = FAILED
                /\ calls'[c].pc = "start"
                /\ calls'[c].se = Len(step_executions')]_vars

\* a transient failure was retried, the retry failed with the retries used
\* up, and on another step a permanent failure of a step with retries left
\* was not retried
C12_Witness ==
  /\ \E i, j \in AttemptIds :
       /\ step_executions[j].parent_step_execution_id = i
       /\ ~step_executions[j].manual
       /\ step_executions[i].error_type = "transient"
       /\ step_executions[j].status = FAILED
       /\ step_executions[j].error_type = "transient"
       /\ \A k \in AttemptIds :
            step_executions[k].parent_step_execution_id # j
  /\ \E i \in AttemptIds :
       /\ step_executions[i].status = FAILED
       /\ step_executions[i].error_type = "permanent"
       /\ step_executions[i].retry_count = 0
       /\ steps[step_executions[i].step_id].retry_config = MaxRetries
       /\ \A k \in AttemptIds :
            step_executions[k].parent_step_execution_id # i

\* C13: when execute returns on the workflow [MANUAL, API transient-fail
\* step with max_retries 2], the API step has exactly three attempts, of
\* retry_count 0, 1, 2 and status FAILED, FAILED, SUCCESS, every retry's
\* parent being the attempt before it, and the WorkflowExecution is SUCCESS.
C13_RetrySucceeds ==
  \A c \in SeqCalls :
    (steps = RetryWorkflow /\ calls[c].kind = "execute"
       /\ calls[c].pc = "done") =>
      LET w == calls[c].we
          rows == RowsOf(w, 2)
      IN /\ Cardinality(rows) = 3
         /\ \A i, j \in rows :
              step_executions[i].retry_count = step_executions[j].retry_count
                => i = j
         /\ \A i \in rows :
              /\ step_executions[i].retry_count \in 0..2
              /\ step_executions[i].status =
                   IF step_executions[i].retry_count = 2
                     THEN SUCCESS ELSE FAILED
              /\ step_executions[i].retry_count > 0 =>
                   LET p == step_executions[i].parent_step_execution_id
                   IN /\ p \in rows
                      /\ step_executions[p].retry_count =
                           step_executions[i].retry_count - 1
         /\ executions[w].status = SUCCESS

\* C14: the creation of an automatic retry changes no existing StepExecution
\* row; it appends one row, PENDING, of retry_count one more than the failed
\* attempt's and with the failed attempt's input snapshot.
C14_RetryAppends ==
  [][\A c \in Calls :
       LET f == calls[c]
       IN (f.pc = "retry" /\ calls'[c] # f) =>
            /\ Len(step_executions') = Len(step_executions) + 1
            /\ \A i \in AttemptIds : step_executions'[i] = step_executions[i]
            /\ LET new == step_executions'[Len(step_executions')]
                   prev == step_executions[f.se]
               IN /\ new.status = PENDING
                  /\ new.retry_count = prev.retry_count + 1
                  /\ new.input = prev.input]_vars

\* the second step, fed the integer the first step passed through, was
\* retried automatically and the retry has run
C14_Witness ==
  \E i, j \in AttemptIds :
    /\ step_executions[j].parent_step_execution_id = i
    /\ ~step_executions[j].manual
    /\ step_executions[j].step_id = 2
    /\ step_executions[j].status \in StepTerminal
    /\ step_executions[i].input = JsonMap("int", {})
    /\ \E k \in AttemptIds : /\ step_executions[k].step_id = 1
                              /\ step_executions[k].output = JsonInt

\* x, or {"value": x} when x is no mapping
Boxed(x) ==
  IF x.shape = "map" THEN x
  ELSE [shape |-> "map", value |-> x.shape, rest |-> {}]

\* C15: a first attempt created by an execute call has retry_count 0; its
\* input snapshot is the trigger input for the first step and, for a later
\* step, the output of the one SUCCESS attempt of the step before it, a
\* value x that is no mapping being stored as {"value": x}.
C15_DataFlow ==
  [][\A c \in Calls :
       LET f == calls[c]
       IN (f.kind = "execute" /\ f.pc = "create" /\ calls'[c] # f) =>
            /\ Len(step_executions') = Len(step_executions) + 1
            /\ LET new == step_executions'[Len(step_executions')]
                   before == {j \in RowsOf(f.we, f.step - 1) :
                                step_executions[j].status = SUCCESS}
               IN /\ new.step_id = f.step
                  /\ new.workflow_execution_id = f.we
                  /\ new.retry_count = 0
                  /\ IF f.step = 1
                       THEN new.input = Boxed(f.trigger_input)
                       ELSE /\ Cardinality(before) = 1
                            /\ \A j \in before :
                                 new.input = Boxed(step_executions[j].output)
                                ]_vars

\* an execute call triggered with an integer stored {"value": integer} for
\* the first step, whose output, a transformed mapping, is the second
\* step's input
C15_Witness ==
  \E c \in SeqCalls : \E i, j \in AttemptIds :
    /\ calls[c].kind = "execute"
    /\ calls[c].trigger_input = JsonInt
    /\ step_executions[i].workflow_execution_id = calls[c].we
    /\ step_executions[j].workflow_execution_id = calls[c].we
    /\ step_executions[i].step_id = 1
    /\ step_executions[i].input = JsonMap("int", {})
    /\ step_executions[i].status = SUCCESS
    /\ step_executions[i].output # JsonInt
    /\ step_executions[j].step_id = 2
    /\ step_executions[j].input = step_executions[i].output

\* the step of row rec has an input schema and rec's input violates it
InputViolates(rec) ==
  /\ steps[rec.step_id].input_schema = ValueInteger
  /\ ~(rec.input.shape = "map" /\ rec.input.value = "int")

\* what C16 says of the attempt itself
InputRejected(i) ==
  LET rec == step_executions[i]
  IN InputViolates(rec) =>
       /\ ~rec.invoked
       /\ rec.status \in StepTerminal =>
            /\ rec.status = FAILED
            /\ rec.error_code = "VALIDATION_ERROR"
            /\ rec.error_type = "permanent"
            /\ \A k \in AttemptIds :
                 step_executions[k].parent_step_execution_id = i
                   => step_executions[k].manual

\* C16: an attempt whose input violates the step's input schema ends FAILED
\* with code VALIDATION_ERROR and error_type permanent, the step
\* implementation is never called for it, no automatic retry follows it
\* whatever the retry config, and the call that ran it leaves its
\* WorkflowExecution FAILED.
C16_InputRejected ==
  /\ [](\A i \in AttemptIds : InputRejected(i))
  /\ [][\A c \in Calls :
          LET f == calls[c]
          IN (/\ f.pc = "complete"
              /\ calls'[c].pc = "done"
              /\ InputViolates(step_executions[f.se])
              /\ step_executions[f.se].status \in StepTerminal)
             => executions'[f.we].status = FAILED]_vars

\* the step was called for row rec and its result was turned into a
\* VALIDATION_ERROR
OutputRejected(rec) == rec.invoked /\ rec.error_code = "VALIDATION_ERROR"

\* C17: an output that violates the step's output schema is never recorded
\* as a success: the attempt ends FAILED with code VALIDATION_ERROR,
\* error_type permanent and the metadata of the step's own result, stores no
\* output and gets no automatic retry; the call goes on to complete the
\* workflow, its current input unchanged and no later step attempted.
C17_OutputRejected ==
  /\ [](\A i \in AttemptIds :
         LET rec == step_executions[i]
         IN /\ (/\ rec.status = SUCCESS
                 /\ steps[rec.step_id].output_schema = ValueInteger)
               => rec.output.shape = "map" /\ rec.output.value = "int"
            /\ OutputRejected(rec) =>
                 /\ rec.status = FAILED
                 /\ rec.error_type = "permanent"
                 /\ rec.result_metadata = "step"
                 /\ ~rec.has_output
                 /\ rec.output = JsonNull
                 /\ \A k \in AttemptIds :
                      step_executions[k].parent_step_execution_id = i
                        => step_executions[k].manual)
  /\ [][\A c \in Calls :
          LET f == calls[c]
          IN (f.pc = "call" /\ OutputRejected(step_executions'[f.se])) =>
               /\ calls'[c].pc = "complete"
               /\ calls'[c].current_input = f.current_input
               /\ Len(step_executions') = Len(step_executions)]_vars

\* the first of two steps, one with retries left, returned an output its
\* schema rejects; execute ended FAILED and the second step has no attempt
C17_Witness ==
  \E c \in SeqCalls : \E i \in AttemptIds :
    /\ ExecuteReturned(c)
    /\ executions[calls[c].we].status = FAILED
    /\ Len(steps) = 2
    /\ step_executions[i].workflow_execution_id = calls[c].we
    /\ step_executions[i].step_id = 1
    /\ steps[1].retry_config = MaxRetries
    /\ OutputRejected(step_executions[i])
    /\ RowsOf(calls[c].we, 2) = {}
    /\ Cardinality(RowsOf(calls[c].we, 1)) = 1

\* C18: a step call that misses its deadline gives a failure with code
\* TIMEOUT, error_type transient and retryable true, recorded on the attempt
\* as FAILED; in the step loop it is retried exactly when the retry policy
\* says so for a transient failure; a call that returns within the
\* deadline never gives TIMEOUT and its own result is recorded.
C18_Timeout ==
  /\ [](/\ \A s \in Steps : \A x \in TriggerInputs :
            \A r \in ExecuteSingleStep(steps[s], x) :
              r.code = "TIMEOUT" =>
                /\ r.status = "failure"
                /\ r.error_type = "transient"
                /\ r.retryable
         /\ \A i \in AttemptIds :
              LET rec == step_executions[i]
              IN /\ rec.error_code = "TIMEOUT" =>
                      /\ rec.status = FAILED
                      /\ rec.error_type = "transient"
                      /\ rec.result_metadata = "synthetic"
                      /\ steps[rec.step_id].timeout_seconds < MaxDuration
                 /\ (rec.invoked /\ rec.error_code # "TIMEOUT") =>
                      rec.result_metadata = "step")
  /\ [][\A c \in Calls :
          LET f == calls[c]
          IN (/\ f.pc = "call"
              /\ ~f.single
              /\ step_executions'[f.se].error_code = "TIMEOUT")
             => IF RetryDue(step_executions'[f.se])
                  THEN calls'[c].pc = "backoff"
                  ELSE calls'[c].pc = "complete"]_vars

\* an attempt timed out, was retried automatically, the retry returned in
\* time with a success and execute ended SUCCESS
C18_Witness ==
  \E i, j \in AttemptIds : \E c \in SeqCalls :
    /\ step_executions[i].error_code = "TIMEOUT"
    /\ step_executions[i].invoked
    /\ step_executions[j].parent_step_execution_id = i
    /\ ~step_executions[j].manual
    /\ step_executions[j].status = SUCCESS
    /\ ExecuteReturned(c)
    /\ step_executions[j].workflow_execution_id = calls[c].we
    /\ executions[calls[c].we].status = SUCCESS

\* C19: when an exception escapes a step's execute, the current attempt
\* ends FAILED with code STEP_CRASH and error_type permanent, no attempt of
\* the execution stays RUNNING, the attempt gets no automatic retry and the
\* WorkflowExecution is FAILED when the call ends.
C19_StepCrash ==
  \A c \in Calls :
    calls[c].outcome = "StepException" =>
      LET w == calls[c].we
      IN /\ executions[w].status = FAILED
         /\ \A i \in AttemptIds :
              step_executions[i].workflow_execution_id = w
                => step_executions[i].status # RUNNING
         /\ \E i \in AttemptIds :
              /\ step_executions[i].workflow_execution_id = w
              /\ step_executions[i].status = FAILED
              /\ step_executions[i].error_code = "STEP_CRASH"
              /\ step_executions[i].error_type = "permanent"
              /\ \A k \in AttemptIds :
                   step_executions[k].parent_step_execution_id = i
                     => step_executions[k].manual

\* attempt i is FAILED and no attempt of its execution and step has a
\* higher retry_count
Retryable(i) ==
  /\ step_executions[i].status = FAILED
  /\ \A k \in RowsOf(step_executions[i].workflow_execution_id,
                      step_executions[i].step_id) :
       step_executions[k].retry_count <= step_executions[i].retry_count

\* C20: resume_execution goes past its checks, and creates an attempt, only
\* for a referenced attempt that is FAILED and has no newer attempt of the
\* same step in its execution; for every other attempt it creates nothing.
C20_ResumeRefuses ==
  [][\A c \in Calls :
       /\ (Finished(c) /\ calls'[c].pc = "rs_create")
            => Retryable(calls'[c].se)
       /\ (/\ calls[c].pc = "rs_create"
            /\ Len(step_executions') > Len(step_executions))
            => Retryable(calls[c].se)]_vars

\* execution w can be resumed on attempt i: w is terminal and not CANCELLED,
\* and i is an attempt of w
Resumable(w, i) ==
  /\ executions[w].status \in {SUCCESS, FAILED}
  /\ step_executions[i].workflow_execution_id = w

\* C21: resume_execution goes past its checks, and creates an attempt, only
\* when the execution is terminal and not CANCELLED and the referenced
\* attempt belongs to it; for an execution that is PENDING, RUNNING or
\* CANCELLED, or an attempt of another execution, it creates nothing.
C21_ResumeChecksExecution ==
  [][\A c \in Calls :
       (Finished(c) /\ calls'[c].pc = "rs_create")
         => Resumable(calls'[c].we, calls'[c].se)]_vars

\* the attempt the last resume_execution call created
LastManual ==
  CHOOSE i \in AttemptIds :
    /\ step_executions[i].manual
    /\ \A k \in AttemptIds : step_executions[k].manual => k <= i

\* C22: a resume_execution call on a FAILED attempt F appends one attempt of
\* F's step with retry_count = F.retry_count + 1, is_retry set, parent F and
\* F's input, and changes no existing row; every other attempt the call
\* appends belongs to a later step, and F stays as it was.
C22_ResumeAppends ==
  [][\A c \in Calls :
       LET f == calls[c]
           n == Len(step_executions)
       IN /\ (/\ f.pc = "rs_create"
              /\ step_executions[f.se].status = FAILED
              /\ calls'[c] # f)
            => /\ Len(step_executions') = n + 1
               /\ \A i \in AttemptIds :
                    step_executions'[i] = step_executions[i]
               /\ LET F == step_executions[f.se]
                      new == step_executions'[n + 1]
                  IN /\ new.step_id = F.step_id
                     /\ new.retry_count = F.retry_count + 1
                     /\ new.is_retry
                     /\ new.parent_step_execution_id = f.se
                     /\ new.input = F.input
                     /\ new.status = PENDING
          /\ (/\ f.kind = "resume"
              /\ f.pc # "rs_create"
              /\ Len(step_executions') > n)
            => LET m == step_executions[LastManual]
               IN /\ step_executions'[n + 1].step_id > m.step_id
                  /\ step_executions'[m.parent_step_execution_id] =
                       step_executions[m.parent_step_execution_id]]_vars

\* a resume_execution call on a FAILED attempt of the second step, whose
\* input is the first step's output, has returned
C22_Witness ==
  \E i \in AttemptIds : \E c \in SeqCalls :
    /\ step_executions[i].manual
    /\ step_executions[i].step_id = 2
    /\ step_executions[step_executions[i].parent_step_execution_id].status
         = FAILED
    /\ step_executions[i].input # Wrap(TestData)
    /\ calls[c].kind = "resume"
    /\ calls[c].outcome = "returned"
    /\ calls[c].we = step_executions[i].workflow_execution_id

\* C23: the attempt resume_execution creates is run once: when it fails,
\* whatever the retry config of its step and the error_type of the failure,
\* the call goes on to complete the workflow, and no automatic retry ever
\* has an attempt made by resume_execution as its parent.
C23_ManualRunsOnce ==
  /\ [](\A i \in AttemptIds :
          LET p == step_executions[i].parent_step_execution_id
          IN (p # Null /\ step_executions[p].manual)
               => step_executions[i].manual)
  /\ [][\A c \in Calls :
          LET f == calls[c]
          IN (/\ f.pc = "call"
              /\ f.single
              /\ step_executions'[f.se].status = FAILED)
             => /\ calls'[c].pc = "complete"
                /\ Len(step_executions') = Len(step_executions)]_vars

\* a resume_execution call has returned whose attempt failed with a
\* transient error below the max_retries of its step, and got no successor
C23_Witness ==
  \E i \in AttemptIds : \E c \in SeqCalls :
    /\ step_executions[i].manual
    /\ step_executions[i].status = FAILED
    /\ step_executions[i].error_type = "transient"
    /\ step_executions[i].retry_count
         < MaxRetriesOf(steps[step_executions[i].step_id].retry_config)
    /\ calls[c].kind = "resume"
    /\ calls[c].outcome = "returned"
    /\ calls[c].we = step_executions[i].workflow_execution_id
    /\ \A k \in AttemptIds : step_executions[k].parent_step_execution_id # i

\* C24: in resume_execution, when the manual attempt succeeds the step
\* loop is entered at the next step with the attempt's output as input, or
\* the workflow is completed when no step is left; when the manual attempt
\* fails the workflow is completed at once; and every call that got past its
\* lookups returns with the execution in a terminal status.
C24_ResumeContinues ==
  /\ [][\A c \in Calls :
          LET f == calls[c]
          IN (f.pc = "call" /\ f.single /\ calls'[c] # f)
             => IF step_executions'[f.se].status = SUCCESS
                  THEN IF f.step < Len(steps)
                         THEN /\ calls'[c].pc = "create"
                              /\ calls'[c].step = f.step + 1
                              /\ ~calls'[c].single
                              /\ calls'[c].current_input =
                                   step_executions'[f.se].output
                         ELSE calls'[c].pc = "complete"
                  ELSE calls'[c].pc \in {"complete", "done"}]_vars
  /\ [](\A c \in Calls :
          (/\ calls[c].kind = "resume"
           /\ calls[c].pc = "done"
           /\ calls[c].we # Null)
            => /\ calls[c].outcome = "returned"
               /\ executions[calls[c].we].status \in WorkflowTerminal)

\* C25: the ExecutionContext of every attempt whose step was called carries
\* the trigger input its WorkflowExecution was started with, whether
\* execute, an automatic retry or resume_execution made the attempt.
C25_ContextTriggerInput ==
  \A i \in AttemptIds :
    (step_executions[i].status \in StepTerminal /\ step_executions[i].invoked)
      => step_executions[i].context_trigger_input =
           executions[step_executions[i].workflow_execution_id].trigger_input

\* the status as log_metadata["status"] spells it
LogStatusOf(status) ==
  IF status = RUNNING THEN "RUNNING"
  ELSE IF status = SUCCESS THEN "SUCCESS"
  ELSE IF status = FAILED THEN "FAILED"
  ELSE "none"

\* the logs written for execution w, and those among them of attempt i
LogsOf(w) == {k \in 1..Len(logs) : logs[k].workflow_execution_id = w}
LogsOfAttempt(i) == {k \in 1..Len(logs) : logs[k].step_execution_id = i}

\* the last row of logs' is a new log of the given reference and status
LogAdded(step_execution_id, we, status) ==
  /\ Len(logs') = Len(logs) + 1
  /\ logs'[Len(logs')].step_execution_id = step_execution_id
  /\ logs'[Len(logs')].workflow_execution_id = we
  /\ logs'[Len(logs')].status = LogStatusOf(status)

\* C26: every status change of a WorkflowExecution or a StepExecution made
\* by a call comes with one log, added in the same commit or in the next
\* commit of the call; the log of a workflow change has no
\* step_execution_id, the log of an attempt change has the attempt's; and
\* after an execute call of n steps that all succeeded at the first attempt
\* the execution has 2n + 2 logs.
C26_LogPerTransition ==
  /\ [][/\ \A w \in ExecutionIds :
            executions'[w].status # executions[w].status
              => \/ LogAdded(Null, w, executions'[w].status)
                 \/ \E c \in Calls : /\ calls'[c].pc = "ex_log"
                                      /\ calls'[c].we = w
        /\ \A i \in AttemptIds :
            step_executions'[i].status # step_executions[i].status
              => \/ LogAdded(i, step_executions[i].workflow_execution_id,
                             step_executions'[i].status)
                 \/ \E c \in Calls : /\ calls'[c].pc = "log_start"
                                      /\ calls'[c].se = i
        /\ \A c \in Calls :
            /\ (calls[c].pc = "ex_log" /\ calls'[c] # calls[c])
                 => LogAdded(Null, calls[c].we, RUNNING)
            /\ (calls[c].pc = "log_start" /\ calls'[c] # calls[c])
                 => LogAdded(calls[c].se, calls[c].we, RUNNING)]_vars
  /\ [](\A c \in Calls :
          (/\ ExecuteReturned(c)
           /\ \A s \in Steps : \E i \in AttemptIds :
                /\ RowsOf(calls[c].we, s) = {i}
                /\ step_executions[i].status = SUCCESS)
            => Cardinality(LogsOf(calls[c].we)) = 2 * Len(steps) + 2)

WorkflowStarted == "Workflow execution started"

\* log k records that an attempt entered a terminal status
StepEndLog(k) == logs[k].message \in {"Step completed successfully",
                                      "Step failed"}

\* exactly one log of execution w says the workflow started, and no log of
\* w was written before it
StartedOnceAndFirst(w) ==
  \E k \in LogsOf(w) :
    /\ logs[k].message = WorkflowStarted
    /\ \A j \in LogsOf(w) :
         /\ logs[j].message = WorkflowStarted => j = k
         /\ k <= j

\* the logs carry non-decreasing timestamps in the order they were written
TimestampsMonotonic ==
  \A j, k \in 1..Len(logs) : j < k => logs[j].timestamp <= logs[k].timestamp

\* "Step started" of an attempt comes before the log of its terminal status,
\* and neither is older than the transition it records
StartedBeforeEnded ==
  \A k \in 1..Len(logs) :
    LET i == logs[k].step_execution_id
    IN /\ (i # Null /\ logs[k].message = "Step started")
            => logs[k].timestamp >= step_executions[i].started_at
       /\ (i # Null /\ StepEndLog(k))
            => /\ logs[k].timestamp >= step_executions[i].finished_at
               /\ \E j \in 1..(k - 1) :
                    /\ logs[j].step_execution_id = i
                    /\ logs[j].message = "Step started"

\* within one execution the logs of the attempts of a step come before the
\* logs of the attempts of the next step
StepsInOrder ==
  \A j, k \in 1..Len(logs) :
    LET a == logs[j].step_execution_id
        b == logs[k].step_execution_id
    IN (/\ a # Null
        /\ b # Null
        /\ logs[j].workflow_execution_id = logs[k].workflow_execution_id
        /\ step_executions[a].step_id < step_executions[b].step_id)
         => j < k

\* C27: the logs of a WorkflowExecution hold exactly one "Workflow execution
\* started", written before every other log of the execution; timestamps
\* do not decrease along the logs; an attempt's "Step started" precedes its
\* terminal log; and the logs of step k precede those of step k+1.
C27_LogOrder ==
  /\ \A w \in ExecutionIds : LogsOf(w) # {} => StartedOnceAndFirst(w)
  /\ TimestampsMonotonic
  /\ StartedBeforeEnded
  /\ StepsInOrder

\* some log of the given reference, execution and status is in the store
Logged(step_execution_id, we, status) ==
  \E k \in 1..Len(logs) :
    /\ logs[k].step_execution_id = step_execution_id
    /\ logs[k].workflow_execution_id = we
    /\ logs[k].status = LogStatusOf(status)

\* C28: the store, as it stands after any commit, holds the log of every
\* status change it holds and the status change of every log it holds: an
\* execution or attempt that left PENDING has its RUNNING log, one in SUCCESS
\* or FAILED has the log of that status, and a log names a status its
\* execution or attempt has reached.
C28_LogWithTransition ==
  /\ \A w \in ExecutionIds :
       /\ executions[w].was_running => Logged(Null, w, RUNNING)
       /\ executions[w].status \in {SUCCESS, FAILED}
            => Logged(Null, w, executions[w].status)
  /\ \A i \in AttemptIds :
       LET w == step_executions[i].workflow_execution_id
       IN /\ step_executions[i].was_running => Logged(i, w, RUNNING)
          /\ step_executions[i].status \in {SUCCESS, FAILED}
               => Logged(i, w, step_executions[i].status)
  /\ \A k \in 1..Len(logs) :
       LET i == logs[k].step_execution_id
           w == logs[k].workflow_execution_id
       IN IF i = Null
            THEN /\ executions[w].was_running
                 /\ logs[k].status # "RUNNING"
                      => executions[w].finished_at # NoTime
            ELSE /\ step_executions[i].was_running
                 /\ logs[k].status \in {"SUCCESS", "FAILED"}
                      => logs[k].status =
                           LogStatusOf(step_executions[i].status)

\* the two shapes of a StepResult: success with an output and no error,
\* failure with an error and no output
WellFormedResult(r) ==
  \/ r.status = "success" /\ r.output # JsonNull /\ r.error = NoError
  \/ r.status = "failure" /\ r.error # NoError /\ r.output = JsonNull

\* C29: StepResult(status, output, error) is constructed exactly when it
\* has one of the two shapes, and raises for every other combination.
C29_ResultDuality ==
  sm.outcome # "none" => (sm.outcome = "constructed" <=> WellFormedResult(sm))

\* C30: while a call is at the step call of _execute_single_step the
\* attempt it runs is RUNNING in the store, and when an execute or
\* resume_execution call has returned, no attempt is PENDING or RUNNING
\* (calls run one after another, so the store holds the attempts of the
\* call and of those before it).
C30_RunningWhileInvoked ==
  \A c \in Calls :
    /\ calls[c].pc \in {"log_start", "call"}
         => step_executions[calls[c].se].status = RUNNING
    /\ (calls[c].pc = "done" /\ calls[c].outcome = "returned")
         => \A i \in AttemptIds : step_executions[i].status \in StepTerminal

\* a resume_execution call has returned whose attempt ran the step and
\* failed, after an execute call whose attempt ran the step
C30_Witness ==
  \E c \in SeqCalls : \E i, j \in AttemptIds :
    /\ calls[c].kind = "resume"
    /\ calls[c].outcome = "returned"
    /\ step_executions[i].workflow_execution_id = calls[c].we
    /\ step_executions[i].manual
    /\ step_executions[i].invoked
    /\ step_executions[i].status = FAILED
    /\ step_executions[i].parent_step_execution_id = j
    /\ step_executions[j].invoked
    /\ step_executions[j].status = FAILED

\* the attempts of execution w that are PENDING or RUNNING
NonTerminal(w) ==
  {i \in AttemptIds : /\ step_executions[i].workflow_execution_id = w
                      /\ step_executions[i].status \notin StepTerminal}

----------------------------------------------------------------------------
\* SpecConcurrent: execute calls of two requests, each with its own session
\* and LinearExecutor, interleaved commit by commit on a one-step workflow
\* with retries.  The first request has run alone until the first attempt
\* of its step failed with a transient error (the state execute is in when
\* it reaches line 325); the second request arrives from then on.

InitConcurrent ==
  /\ steps = <<HttpStepRow(MaxRetries)>>
  /\ executions =
       <<[NewWorkflowExecution(1) EXCEPT
            !.status = RUNNING, !.started_at = 2, !.was_running = TRUE,
            !.trigger_input = TestData]>>
  /\ step_executions =
       <<[NewStepExecution(1, 1, 0, FALSE, Null, TestData, 4) EXCEPT
            !.status = FAILED, !.started_at = 5, !.finished_at = 7,
            !.was_running = TRUE, !.error_code = "HTTP_ERROR",
            !.error_type = "transient", !.invoked = TRUE,
            !.result_metadata = "step",
            !.context_trigger_input = TestData]>>
  /\ logs =
       <<NewExecutionLog(Null, "Workflow execution started", "RUNNING", 1, 3),
         NewExecutionLog(1, "Step started", "RUNNING", 1, 6),
         NewExecutionLog(1, "Step failed", "FAILED", 1, 7)>>
  /\ calls =
       [c \in Calls |->
          IF c = 1
            THEN [IdleFrame EXCEPT
                    !.kind = "execute", !.pc = "backoff", !.we = 1, !.se = 1,
                    !.step = 1, !.result = "transient",
                    !.trigger_input = TestData, !.current_input = TestData]
          ELSE IdleFrame]
  /\ now = 7
  /\ sm = InitSm

NextConcurrent ==
  \E c \in Calls :
    \/ Execute(c)
    \/ StepLoop(c)
    \/ CompleteWorkflowExecution(c)

SpecConcurrent == InitConcurrent /\ [][NextConcurrent]_vars

\* the attempts of execution w, and the one created after attempt i
AttemptsOf(w) ==
  {i \in AttemptIds : step_executions[i].workflow_execution_id = w}

Successors(w, i) == {j \in AttemptsOf(w) : j > i}

\* the attempts of w and its status are what execute leaves when it runs
\* alone: the first attempt is of step 1, an attempt is followed by the
\* retry of its step exactly when it failed and _should_retry holds, by the
\* first attempt of the next step when it succeeded, and a terminal w is
\* FAILED exactly when its last attempt failed
RunsAsAlone(w) ==
  /\ \A i \in AttemptsOf(w) :
       LET se == step_executions[i]
           retried == /\ se.status = FAILED
                      /\ ShouldRetry(se.step_id, se, se.error_type)
       IN /\ (\A j \in AttemptsOf(w) : j >= i) =>
               se.step_id = 1 /\ se.retry_count = 0
          /\ \A j \in Successors(w, i) :
               (\A k \in Successors(w, i) : j <= k) =>
                 LET nx == step_executions[j]
                 IN IF retried
                      THEN /\ nx.step_id = se.step_id
                           /\ nx.retry_count = se.retry_count + 1
                           /\ nx.parent_step_execution_id = i
                    ELSE /\ se.status = SUCCESS
                         /\ nx.step_id = se.step_id + 1
                         /\ nx.retry_count = 0
          /\ (Successors(w, i) = {} /\ executions[w].status \in WorkflowTerminal)
               => /\ ~retried
                  /\ se.status \in StepTerminal
                  /\ executions[w].status = FAILED <=> se.status = FAILED
                  /\ se.status = SUCCESS => se.step_id = Len(steps)
  /\ executions[w].status \in WorkflowTerminal => AttemptsOf(w) # {}

\* C32: with two execute calls interleaved, every StepAttempt carries the id
\* of the execution of the call that created it, a call changes the
\* attempts and the record of its own execution only, and the status and
\* the attempts of each execution are those of the execution run alone.
C32_Isolation ==
  /\ [](\A w \in ExecutionIds : RunsAsAlone(w))
  /\ [][\A c \in Calls :
          calls'[c] # calls[c] =>
            /\ Len(step_executions') > Len(step_executions) =>
                 step_executions'[Len(step_executions')]
                   .workflow_execution_id = calls[c].we
            /\ \A i \in AttemptIds :
                 step_executions'[i] # step_executions[i] =>
                   step_executions[i].workflow_execution_id = calls[c].we
            /\ \A w \in ExecutionIds :
                 executions'[w] # executions[w] => w = calls[c].we]_vars

\* both calls returned, one execution FAILED after a retry and the other
\* SUCCESS, the attempts of the two created alternately
C32_Witness ==
  /\ \A c \in Calls : ExecuteReturned(c)
  /\ calls[1].we # calls[2].we
  /\ \E w, v \in ExecutionIds :
       /\ executions[w].status = FAILED
       /\ executions[v].status = SUCCESS
       /\ \E i, k \in AttemptsOf(w) : \E j \in AttemptsOf(v) :
            i < j /\ j < k

\* C33: a FAILED StepAttempt has an error (built from the code and message of
\* the StepError) and an error_type transient or permanent; a SUCCESS
\* StepAttempt has no error and holds the output the step returned, the value
\* the call carries on as input; a FAILED WorkflowExecution has a FAILED
\* attempt with such an error.
C33_ErrorRecorded ==
  /\ [](/\ \A i \in AttemptIds :
             LET se == step_executions[i]
             IN /\ se.status = FAILED =>
                     /\ se.error_code # "none"
                     /\ se.error_type \in {"transient", "permanent"}
                /\ se.status = SUCCESS =>
                     /\ se.error_code = "none"
                     /\ se.has_output
        /\ \A w \in ExecutionIds :
             executions[w].status = FAILED =>
               \E i \in AttemptsOf(w) :
                 /\ step_executions[i].status = FAILED
                 /\ step_executions[i].error_code # "none")
  /\ [][\A i \in AttemptIds :
          (step_executions[i].status # SUCCESS
             /\ step_executions'[i].status = SUCCESS) =>
            \E c \in SeqCalls :
              /\ calls[c].se = i
              /\ step_executions'[i].output = calls'[c].current_input]_vars

\* a FAILED execution whose failing attempt is the manual retry of resume,
\* failed by a validation error, next to a SUCCESS attempt with its output
C33_Witness ==
  \E w \in ExecutionIds :
    /\ executions[w].status = FAILED
    /\ \E i, j \in AttemptsOf(w) :
         /\ step_executions[i].status = FAILED
         /\ step_executions[i].manual
         /\ step_executions[i].error_code = "VALIDATION_ERROR"
         /\ step_executions[j].status = SUCCESS
         /\ step_executions[j].output # JsonNull

----------------------------------------------------------------------------
\* POST /api/executions/{execution_id}/steps/{step_execution_id}/retry
\* (app/api/routes/executions.py, retry_step)

\* lines 140-144: the inner try around resume_execution; what leaves it is
\* the return, the HTTPException(400) raised for a ValueError, or the
\* exception of resume_execution
InnerTry(outcome) ==
  IF outcome = "ValueError" THEN "HTTPException(400)" ELSE outcome

\* lines 132-151: the outer try; except Exception takes whatever was raised
\* inside it, the HTTPException of the inner handler included, and raises
\* HTTPException(500)
OuterTry(raised) ==
  IF raised = "returned" THEN "returned" ELSE "HTTPException(500)"

\* the status code retry_step answers with when resume_execution, called
\* for an execution that exists, ends with outcome
RetryStep(weid, outcome) ==
  IF weid \notin ExecutionIds THEN 404
  ELSE LET left == OuterTry(InnerTry(outcome))
       IN IF left = "returned" THEN 200 ELSE 500

\* C34: the retry endpoint answers 404 when the execution does not exist and
\* 400 when resume_execution raises ValueError; such a rejection is never
\* answered with a 5xx.
C34_RetryEndpoint ==
  [][\A c \in SeqCalls :
     \A weid \in ExecutionIds \cup {Null} :
     \A seid \in AttemptIds \cup {Null} :
       ResumeNotFound(c, weid, seid) =>
         /\ calls'[c].outcome = "ValueError"
         /\ RetryStep(weid, calls'[c].outcome) =
              IF weid \in ExecutionIds THEN 400 ELSE 404]_vars

----------------------------------------------------------------------------
\* SpecShouldRetry: _should_retry called for a step of any retry_config, an
\* attempt of any retry_count and any StepResult a step can construct

\* the retry_config columns: none, {} without max_retries, max_retries given
ShouldRetryConfigs == RetryConfigs \cup {NoMaxRetries}

\* the StepResults: success, and failure with any StepError
ShouldRetryResults ==
  {Success(TestData)} \cup
  {Failure(e.code, e.error_type, e.retryable, "step", TRUE) : e \in StepErrors}

InitShouldRetry ==
  /\ \E rc \in ShouldRetryConfigs : steps = <<HttpStepRow(rc)>>
  /\ executions = <<>>
  /\ step_executions = <<>>
  /\ logs = <<>>
  /\ calls = [c \in Calls |-> IdleFrame]
  /\ now = 0
  /\ \E retry_count \in 0..(MaxRetries + 1) :
     \E result \in ShouldRetryResults :
       sm = [kind |-> "_should_retry", retry_count |-> retry_count,
             result |-> result, outcome |-> "none"]

\* the call self._should_retry(step, step_execution, result)
CallShouldRetry ==
  /\ sm.outcome = "none"
  /\ sm' = [sm EXCEPT !.outcome =
              IF ShouldRetry(1, [retry_count |-> sm.retry_count],
                             ResultKind(sm.result))
                THEN "True" ELSE "False"]
  /\ UNCHANGED <<steps, executions, step_executions, calls, now, logs>>

SpecShouldRetry == InitShouldRetry /\ [][CallShouldRetry]_vars

\* the retry config allows one more attempt after retry_count
ConfigAllows(retry_config, retry_count) ==
  /\ retry_config # NoRetryConfig
  /\ retry_count < MaxRetriesOf(retry_config)

\* C35: the retry decision follows error_type and never the retryable flag:
\* a failure of error_type permanent is not retried whatever retryable is,
\* and one of error_type transient is retried exactly when the retry config
\* allows it, whatever retryable is.
C35_ErrorTypeDecides ==
  (sm.outcome # "none" /\ sm.result.status = "failure") =>
    /\ sm.result.error_type = "permanent" => sm.outcome = "False"
    /\ sm.result.error_type = "transient" =>
         (sm.outcome = "True" <=>
            ConfigAllows(steps[1].retry_config, sm.retry_count))

\* a transient failure flagged retryable = false was found due for a retry
C35_Witness ==
  /\ sm.outcome = "True"
  /\ sm.result.error_type = "transient"
  /\ ~sm.result.retryable

----------------------------------------------------------------------------
\* SpecBackoff: execute on workflows whose steps have retries, with a
\* retry_config that omits backoff_seconds or names it

\* backoff_seconds of the retry_config: omitted, 0 as in verify_retry.py, 2
BackoffRows ==
  {HttpStepRow(MaxRetries), WithBackoff(HttpStepRow(MaxRetries), 0),
   WithBackoff(HttpStepRow(MaxRetries), 2)}

InitBackoff ==
  /\ \E n \in 1..NSteps : steps \in [1..n -> BackoffRows]
  /\ executions = <<>>
  /\ step_executions = <<>>
  /\ logs = <<>>
  /\ calls = [c \in Calls |-> IdleFrame]
  /\ now = 0
  /\ sm = InitSm

SpecBackoff == InitBackoff /\ [][NextExecute]_vars

\* the logs of attempt i with the given status, by position
LogPositions(i, status) ==
  {k \in 1..Len(logs) : /\ logs[k].step_execution_id = i
                        /\ logs[k].status = status}

\* the attempts created as successor of attempt i
SuccessorsOf(i) ==
  {j \in AttemptIds : step_executions[j].parent_step_execution_id = i}

\* C36: for every automatic retry, the failed attempt is FAILED with its
\* "Step failed" event, then comes a RETRYING event on the failed attempt
\* with next_retry = retry_count + 1, then backoff_seconds pass (1 when the
\* retry config omits it), and only then the successor row is created, and
\* started later still.
C36_RetryOrder ==
  /\ \A k \in 1..Len(logs) :
       logs[k].status = "RETRYING" =>
         LET i == logs[k].step_execution_id
             se == step_executions[i]
             row == steps[se.step_id]
         IN /\ se.status = FAILED
            /\ \E l \in LogPositions(i, "FAILED") :
                 /\ l < k
                 /\ logs[l].message = "Step failed"
                 /\ logs[l].timestamp = se.finished_at
                 /\ logs[l].timestamp <= logs[k].timestamp
            /\ logs[k].next_retry = se.retry_count + 1
            /\ logs[k].backoff_seconds =
                 IF "backoff_seconds" \in DOMAIN row
                   THEN row.backoff_seconds ELSE 1
            /\ \A j \in SuccessorsOf(i) :
                 /\ step_executions[j].retry_count = logs[k].next_retry
                 /\ step_executions[j].created_at >=
                      logs[k].timestamp + logs[k].backoff_seconds
                 /\ step_executions[j].started_at # NoTime =>
                      step_executions[j].started_at >
                        step_executions[j].created_at
  /\ \A j \in AttemptIds :
       step_executions[j].is_retry =>
         LogPositions(step_executions[j].parent_step_execution_id,
                      "RETRYING") # {}

\* a retry running after a backoff of 2 and one after the default backoff
C36_Witness ==
  \E i, j \in AttemptIds :
    /\ i # j
    /\ step_executions[i].is_retry
    /\ step_executions[j].is_retry
    /\ step_executions[i].status = RUNNING
    /\ "backoff_seconds" \notin DOMAIN steps[step_executions[i].step_id]
    /\ BackoffSeconds(steps[step_executions[j].step_id]) = 2

----------------------------------------------------------------------------
\* SpecInstantiate: the executor built for an attempt of a step of any kind
\* and config, by the orchestrator (_instantiate_step) and by the registry
\* (app/steps/registry.py, create_step)

\* StepType, with STORAGE
StepKinds == {"manual", "logic", "storage", "ai", "api"}

\* config.get("handler"): absent, "http", "weather_formatter", another name
Handlers == {"none", "http", "weather_formatter", "other"}

\* the keys a config carries beside handler
ConfigKeys == {"url", "provider", "model"}

StepConfigs == [handler : Handlers, keys : SUBSET ConfigKeys]

\* the two lines after the if/elif chain, in both functions: the instance
\* has the step's config unless its constructor set a non-empty one, which
\* is the step's config too
Instance(class, config) == [class |-> class, config |-> config]

\* LinearExecutor._instantiate_step
InstantiateStep(kind, config) ==
  IF kind = "manual" THEN Instance("InputStep", config)
  ELSE IF kind = "logic"
    THEN IF config.handler = "weather_formatter"
           THEN Instance("WeatherTransformStep", config)
         ELSE Instance("TransformStep", config)
  ELSE IF kind = "storage" THEN Instance("PersistStep", config)
  ELSE IF kind = "ai" THEN Instance("FailStep", config)
  ELSE IF config.handler = "http" THEN Instance("HttpStep", config)
  ELSE Instance("TransientFailStep", config)

\* registry.create_step
CreateStep(kind, config) ==
  IF kind = "manual" THEN Instance("InputStep", config)
  ELSE IF kind = "logic"
    THEN IF config.handler = "weather_formatter"
           THEN Instance("WeatherTransformStep", config)
         ELSE Instance("TransformStep", config)
  ELSE IF kind = "storage" THEN Instance("PersistStep", config)
  ELSE IF kind = "ai" THEN Instance("AiStep", config)
  ELSE IF config.handler = "http" THEN Instance("HttpStep", config)
  ELSE Instance("TransientFailStep", config)

InitInstantiate ==
  /\ steps = <<>>
  /\ executions = <<>>
  /\ step_executions = <<>>
  /\ logs = <<>>
  /\ calls = [c \in Calls |-> IdleFrame]
  /\ now = 0
  /\ \E kind \in StepKinds : \E config \in StepConfigs :
       sm = [kind |-> "_instantiate_step", type |-> kind, config |-> config,
             instances |-> <<>>]

\* line 403 of _execute_single_step, once per attempt: a new instance
CallInstantiateStep ==
  /\ Len(sm.instances) <= MaxRetries
  /\ sm' = [sm EXCEPT !.instances =
              Append(@, InstantiateStep(sm.type, sm.config))]
  /\ UNCHANGED <<steps, executions, step_executions, calls, now, logs>>

SpecInstantiate == InitInstantiate /\ [][CallInstantiateStep]_vars

\* C37: for every step kind and handler, the executor the orchestrator builds
\* for an attempt is the one create_step of the registry returns, with the
\* step's config attached.
C37_RegistryMapping ==
  \A k \in 1..Len(sm.instances) :
    /\ sm.instances[k].class = CreateStep(sm.type, sm.config).class
    /\ sm.instances[k].config = sm.config

\* the record went from one status to another as transition_to does it: the
\* pair is in the table and the timestamps are those ApplyTransition sets
ChangedByTable(kind, terminal, before, after, t) ==
  /\ <<before.status, after.status>> \in LegalPairs(kind)
  /\ after.started_at =
       ApplyTransition(before, after.status, terminal, t).started_at
  /\ after.finished_at =
       ApplyTransition(before, after.status, terminal, t).finished_at

\* C38: every change of the status of a WorkflowExecution or StepExecution
\* row is a pair of the transition table and comes with the timestamps
\* transition_to sets; no status is assigned that the table refuses.
C38_StatusByTable ==
  [][/\ \A w \in ExecutionIds :
          executions'[w].status # executions[w].status =>
            ChangedByTable("workflow", WorkflowTerminal, executions[w],
                           executions'[w], now')
     /\ \A i \in AttemptIds :
          step_executions'[i].status # step_executions[i].status =>
            ChangedByTable("step", StepTerminal, step_executions[i],
                           step_executions'[i], now')]_vars

\* C39: the value resume_execution passes to the step for the manual-retry
\* attempt is the value the step received in the failed attempt; for a first
\* step run by execute that value is the trigger input, mapping or not.
C39_ResumeSameInput ==
  \A c \in SeqCalls :
    LET f == calls[c]
    IN (f.kind = "resume" /\ f.single /\ f.pc = "call") =>
         LET failed ==
               step_executions[step_executions[f.se].parent_step_execution_id]
         IN (/\ failed.workflow_execution_id = f.we
             /\ failed.status = FAILED
             /\ failed.step_id = 1
             /\ failed.invoked
             /\ ~failed.manual) =>
              f.current_input = executions[f.we].trigger_input

\* C40: a resume_execution call that ends by raising has left the store as
\* it was: it raises in its first step, before any commit, and that step
\* changes no WorkflowExecution, StepExecution or ExecutionLog row.
C40_RaiseLeavesStore ==
  [][\A c \in SeqCalls :
       (/\ calls'[c] # calls[c]
        /\ calls'[c].kind = "resume"
        /\ calls'[c].pc = "done"
        /\ calls'[c].outcome # "returned") =>
         /\ Finished(c)
         /\ UNCHANGED <<executions, step_executions, logs>>]_vars

====
